---- MODULE Spec2Model ----
(***************************************************************************)
(* Model of the BlastShield patch pipeline: the deterministic rule engine, *)
(* the risk scorer, the rescanner, the rollback store and the orchestrator *)
(* PatchPipeline.run / _process_violation.                                 *)
(*                                                                         *)
(* A source file is abstracted to what the analysis can observe of it: the *)
(* functions it defines, the rules each function trips, the rules whose    *)
(* check raises on the module, and whether the text is the empty string.   *)
(* Two sources are byte-identical in the model iff these records are equal.*)
(***************************************************************************)
EXTENDS Integers, Sequences, FiniteSets, TLC

\* ------------------------------------------------------------------ bounds
MaxRetriesBound == 1

\* ------------------------------------------------------------ data tables
RULE_REGISTRY ==
    << "race_condition", "missing_await", "unsanitized_io", "dangerous_eval",
       "shared_mutable_state", "missing_exception_boundary",
       "retry_without_backoff", "blocking_io_in_async" >>

FALLBACK_GENERATORS ==
    { "db_conn_per_request", "missing_http_timeout", "blocking_io_in_async",
      "missing_idempotency", "partial_txn_no_rollback",
      "missing_exception_boundary" }

SEVERITY_WEIGHTS ==
    [s \in {"critical", "high", "medium", "low"} |->
        CASE s = "critical" -> 10
          [] s = "high"     -> 7
          [] s = "medium"   -> 4
          [] OTHER          -> 1]

\* Severity a rule attaches to the violations it reports (the rules the
\* model sources can trip).
RuleSeverity(rule) ==
    CASE rule = "dangerous_eval"             -> "critical"
      [] rule = "missing_exception_boundary" -> "high"
      [] rule = "blocking_io_in_async"       -> "high"
      [] OTHER                               -> "high"

\* Rules the model sources may trip, and the function names they may define.
ModelRules == {"dangerous_eval", "missing_exception_boundary", "blocking_io_in_async"}
FuncOrder  == << "f", "g" >>
Paths      == << "a.py", "b.py" >>

\* ----------------------------------------------------------- small helpers
None == << >>
Some(x) == << x >>
IsNone(o) == Len(o) = 0

Range(s) == { s[i] : i \in 1..Len(s) }

\* A source text.
Src(fns, raises, empty) == [fns |-> fns, raises |-> raises, empty |-> empty]

\* -------------------------------------------------------------- rule engine
Violation(rule, sev, path, fn, title) ==
    [rule_id |-> rule, severity |-> sev, file |-> path,
     affected_function |-> fn, title |-> title, blast |-> 0]

\* The violations one rule check reports on one module, in function order.
RuleViolations(rule, path, content) ==
    LET hit == SelectSeq(FuncOrder,
                   LAMBDA fn : fn \in DOMAIN content.fns /\ rule \in content.fns[fn])
    IN [i \in 1..Len(hit) |->
            Violation(rule, RuleSeverity(rule), path, hit[i], "finding")]

\* Outcome of check_fn(module_ast, call_graph): it raises or returns a list.
CheckFn(rule, path, content) ==
    [raised |-> rule \in content.raises,
     viols  |-> RuleViolations(rule, path, content)]

\* The violation the engine records when a rule check raises.
InternalErrorViolation(rule, path) ==
    Violation(rule, "low", path, "", "internal error")

\* The except-branch of the engine's inner loop.
OnRuleExceptionPropagate(acc, rule, path) ==
    [acc EXCEPT !.raised = TRUE]
OnRuleException(acc, rule, path) ==
    [acc EXCEPT !.violations = @ \o << InternalErrorViolation(rule, path) >>]

\* One iteration of the inner loop: try check_fn, extend or record the error.
EngineInner(acc, rule, path, content) ==
    IF acc.raised THEN acc
    ELSE LET out == CheckFn(rule, path, content)
         IN IF out.raised
            THEN OnRuleException(acc, rule, path)
            ELSE [acc EXCEPT !.violations = @ \o out.viols]

RECURSIVE EngineModules(_, _, _, _, _)
EngineModules(acc, rule, paths, modules, i) ==
    IF i > Len(paths) THEN acc
    ELSE EngineModules(EngineInner(acc, rule, paths[i], modules[paths[i]]),
                       rule, paths, modules, i + 1)

RECURSIVE EngineRules(_, _, _, _, _)
EngineRules(acc, rules, paths, modules, k) ==
    IF k > Len(rules) \/ acc.raised THEN acc
    ELSE EngineRules(
            EngineModules([acc EXCEPT !.rules_executed = Append(@, rules[k])],
                          rules[k], paths, modules, 1),
            rules, paths, modules, k + 1)

\* RuleEngine.run over the modules, in insertion order of paths.
RuleEngineRun(rules, paths, modules) ==
    EngineRules([violations |-> << >>, rules_executed |-> << >>, raised |-> FALSE],
                rules, paths, modules, 1)

\* -------------------------------------------------------------- risk scorer
StateMutationRules == {"shared_mutable_state", "race_condition", "cross_module_mutation"}
AsyncBoundaryRules == {"missing_await", "blocking_io_in_async", "race_condition"}

\* round() of num/den for num >= 0, den > 0: ties go to the even integer.
RoundHalfEven(num, den) ==
    LET q == num \div den
        r == num % den
    IN IF 2 * r < den THEN q
       ELSE IF 2 * r > den THEN q + 1
       ELSE IF q % 2 = 0 THEN q ELSE q + 1

\* base_weight * total_factor, scaled by 10 * maxDepth to stay in integers.
WeightedScoreScaled(v, maxDepth, testFailures) ==
    SEVERITY_WEIGHTS[v.severity] *
        ( ( 10
            + (IF v.rule_id \in StateMutationRules THEN 2 ELSE 0)
            + (IF v.rule_id \in testFailures THEN 3 ELSE 0)
            + (IF v.rule_id \in AsyncBoundaryRules THEN 2 ELSE 0) ) * maxDepth
          + 3 * v.blast )

RECURSIVE SumWeighted(_, _, _)
SumWeighted(viols, maxDepth, testFailures) ==
    IF Len(viols) = 0 THEN 0
    ELSE WeightedScoreScaled(Head(viols), maxDepth, testFailures)
         + SumWeighted(Tail(viols), maxDepth, testFailures)

Min(a, b) == IF a < b THEN a ELSE b
Max(a, b) == IF a > b THEN a ELSE b

\* compute_risk_score(...).total_score; graphDepth is call_graph.get_max_depth()
\* (0 without a graph).
ComputeRiskScore(viols, graphDepth, testFailures) ==
    IF Len(viols) = 0 THEN 0
    ELSE LET maxDepth == IF graphDepth = 0 THEN 1 ELSE graphDepth
             total    == SumWeighted(viols, maxDepth, testFailures)
             \* raw = total/(10*maxDepth) / (n*10*2.0) * 100
         IN Min(100, Max(0, RoundHalfEven(total, 2 * Len(viols) * maxDepth)))

\* ---------------------------------------------------------------- rescanner
IsCriticalOrHigh(v) == v.severity \in {"critical", "high"}

\* Step 4 of the rescan: the violations reported as newly introduced.
NewCriticalHigh(viols, target_rule_id) ==
    SelectSeq(viols, LAMBDA v : v.rule_id # target_rule_id /\ IsCriticalOrHigh(v))

\* Step 6 of the rescan: the verdict.
RescanPassed(eliminated, introduced, increased) ==
    eliminated /\ Len(introduced) = 0 /\ ~increased

RescanPatchedSource(patched_source, file_path, target_rule_id, original_risk_score) ==
    LET rule_result == RuleEngineRun(RULE_REGISTRY, << file_path >>,
                                     [p \in {file_path} |-> patched_source])
        viols       == rule_result.violations
        remaining   == SelectSeq(viols, LAMBDA v : v.rule_id = target_rule_id)
        eliminated  == Len(remaining) = 0
        introduced  == NewCriticalHigh(viols, target_rule_id)
        after       == ComputeRiskScore(viols, 0, {})
        increased   == after > original_risk_score
    IN [passed                    |-> RescanPassed(eliminated, introduced, increased),
        target_rule_eliminated    |-> eliminated,
        new_violations_introduced |-> introduced,
        risk_score_before         |-> original_risk_score,
        risk_score_after          |-> after,
        risk_increased            |-> increased,
        violations                |-> viols]

NoRescan ==
    [passed |-> FALSE, target_rule_eliminated |-> FALSE,
     new_violations_introduced |-> << >>, risk_score_before |-> 0,
     risk_score_after |-> 0, risk_increased |-> FALSE, violations |-> << >>]

\* ------------------------------------------------------------ patch sources
\* A replacement function text: the rules its body trips, whether the file
\* still parses with it in place, and whether the structural validator
\* accepts the patched file.
Code(hits, parses, structOK) == [hits |-> hits, parses |-> parses, structOK |-> structOK]

Bodies == { {}, {"dangerous_eval"}, {"missing_exception_boundary"} }

Codes == { Code({}, FALSE, TRUE), Code({}, TRUE, FALSE) }
         \cup { Code(b, TRUE, TRUE) : b \in Bodies }

\* Texts a template can generate (it returns only text that parses).
TemplateCodes ==
    { Code({}, TRUE, TRUE), Code({"dangerous_eval"}, TRUE, TRUE), Code({}, TRUE, FALSE) }

\* What generate_fallback_patch can return for a rule: nothing when the rule
\* has no generator (or the generator fails), else the generated text.
FallbackOutcomes(rule_id) ==
    IF rule_id \in FALLBACK_GENERATORS
    THEN {None} \cup { Some(c) : c \in TemplateCodes }
    ELSE {None}

\* apply_function_patch: None when the function is not found or the result
\* does not parse, else the source with that function's text replaced.
ApplyFunctionPatch(source, target_function, code) ==
    IF target_function \notin DOMAIN source.fns \/ ~code.parses
    THEN None
    ELSE Some([source EXCEPT !.fns[target_function] = code.hits])

\* validate_patch_ast(...).valid
ValidatePatchAst(source, patched_source, target_function, code) == code.structOK

\* --------------------------------------------------------- rollback manager
SnapshotKeys == Range(Paths) \X (Range(FuncOrder) \cup {""})

SaveSnapshotKeepFirst(snaps, file_path, function_name, source) ==
    IF IsNone(snaps[<< file_path, function_name >>])
    THEN [snaps EXCEPT ![<< file_path, function_name >>] = Some(source)]
    ELSE snaps
SaveSnapshot(snaps, file_path, function_name, source) ==
    [snaps EXCEPT ![<< file_path, function_name >>] = Some(source)]

Rollback(snaps, file_path, function_name) == snaps[<< file_path, function_name >>]

\* ------------------------------------------------------------------- inputs
F1(b)     == [n \in {"f"} |-> b]
F2(b, c)  == [n \in {"f", "g"} |-> IF n = "f" THEN b ELSE c]
NoFns     == [n \in {} |-> {}]

\* Source files a request can carry: the first file and the second file.
SecondContents ==
    { Src(F1({"dangerous_eval"}), {}, FALSE),
      Src(F1({}), {}, FALSE) }

FirstContents ==
    { Src(F1({"blocking_io_in_async"}), {}, FALSE),
      Src(F1({"dangerous_eval"}), {}, FALSE),
      Src(F2({"missing_exception_boundary"}, {"dangerous_eval"}), {}, FALSE),
      Src(F1({"dangerous_eval", "blocking_io_in_async"}), {}, FALSE),
      Src(F1({"blocking_io_in_async"}), {"dangerous_eval"}, FALSE),
      Src(NoFns, {"missing_exception_boundary"}, TRUE),
      Src(F1({}), {}, FALSE) }

\* Pipeline configuration and request options.
Configs ==
    { c \in [max_retries    : 0..MaxRetriesBound,
             use_fallback   : BOOLEAN,
             has_gateway    : BOOLEAN,
             review_enabled : BOOLEAN,
             target_rule_ids : { {}, {"blocking_io_in_async", "dangerous_eval"} }] :
        c.review_enabled => c.has_gateway }

\* -------------------------------------------------------------------- state
VARIABLES
    inputs,              \* path -> content of the request's files
    cfg,                 \* pipeline configuration and request options
    pc,                  \* "start", "loop", "attempt", "done"
    rule_result,         \* result of the detection run
    violations,          \* the (filtered) violations, in processing order
    original_risk_score,
    current_sources,     \* the working-source map
    snapshots,           \* RollbackManager._snapshots
    results,             \* PatchResult list
    idx,                 \* index of the violation being processed
    attempt,             \* loop variable of the generation loop
    tmpl,                \* what the deterministic template yields for this violation
    last,                \* record of the most recent generation attempt
    vetted,              \* sources that passed apply, validation and rescan
    response             \* the PatchResponse, once returned

pipelineVars == << inputs, cfg, pc, rule_result, violations, original_risk_score,
                   current_sources, snapshots, results, idx, attempt, tmpl, last,
                   vetted, response >>

\* State of the component-level specifications: each one drives a single
\* component (scorer, call graph, validator, ...) on inputs drawn in its Init
\* and leaves the other components idle.
VARIABLES
    sc_violations,       \* rule_result.violations handed to compute_risk_score
    sc_depth,            \* call_graph.get_max_depth() (0: no graph or no node)
    sc_tests,            \* test_failure_rule_ids
    sc_prev,             \* total_score returned for the list without its last element
    sc_breakdown         \* the RiskBreakdown returned for sc_violations

scorerVars == << sc_violations, sc_depth, sc_tests, sc_prev, sc_breakdown >>

VARIABLES
    va_original,         \* original_source, as ast.parse and the helpers see it
    va_patched,          \* patched_source, likewise
    va_target,           \* target_function
    va_is_async,         \* is_async
    va_decorators,       \* original_decorators
    va_verdict           \* the ValidationVerdict returned, once validated

validatorVars == << va_original, va_patched, va_target, va_is_async,
                    va_decorators, va_verdict >>

VARIABLES
    ap_source,           \* source handed to the applier, as a list of lines
    ap_target,           \* target_function
    ap_code,             \* new_function_code: the text _extract_function_source gave
    ap_result,           \* what apply_function_patch returned
    ap_pc                \* "start", "extracted", "applied"

applierVars == << ap_source, ap_target, ap_code, ap_result, ap_pc >>

VARIABLES
    sw_settings,         \* settings read by the scan route
    sw_cache,            \* FileCache._store of the shared worker
    sw_pending,          \* background scans created and not yet run
    sw_background,       \* _background_scans / _background_status
    sw_response,         \* the response the route returned last
    sw_last,             \* the last run_scan call: its files and its report
    sw_probe,            \* a files list whose runs are compared
    sw_first             \* the report of the first run_scan on sw_probe

scanVars == << sw_settings, sw_cache, sw_pending, sw_background, sw_response,
               sw_last, sw_probe, sw_first >>

VARIABLES
    rc_source,           \* the module text handed to parse_python
    rc_module_ast,       \* the ModuleAST the parser returned
    rc_violations        \* what the race_condition check returned

raceVars == << rc_source, rc_module_ast, rc_violations >>

VARIABLES
    cg_graph,            \* the CallGraph: nodes and edges
    cg_start,            \* node_id passed to get_blast_radius
    cg_visited,          \* visited
    cg_queue,            \* queue
    cg_depth,            \* depth
    cg_pc,               \* position in get_blast_radius
    cg_result            \* the value returned

graphVars == << cg_graph, cg_start, cg_visited, cg_queue, cg_depth, cg_pc,
                cg_result >>

VARIABLES
    bg_modules,          \* modules handed to build_call_graph
    bg_names,            \* name_to_nodes
    bg_graph,            \* the graph under construction
    bg_pc               \* phase of build_call_graph

buildVars == << bg_modules, bg_names, bg_graph, bg_pc >>

VARIABLES
    sg_graph,            \* the CallGraph
    sg_seeds,            \* violation_node_ids
    sg_hops,             \* hops
    sg_expanded,         \* expanded
    sg_frontier,         \* frontier
    sg_round,            \* rounds of the for loop done
    sg_pc,               \* position in get_affected_subgraph
    sg_result           \* the subgraph returned

subVars == << sg_graph, sg_seeds, sg_hops, sg_expanded, sg_frontier, sg_round, sg_pc, sg_result >>

VARIABLES
    gw_max_retries,      \* self.max_retries
    gw_tokens,           \* self.total_tokens_used
    gw_attempt,          \* attempt of the for loop
    gw_outcomes,         \* the calls made so far and how each ended
    gw_sleeps,           \* the asyncio.sleep durations so far
    gw_pc,               \* position in complete
    gw_result           \* the dict returned

gatewayVars == << gw_max_retries, gw_tokens, gw_attempt, gw_outcomes, gw_sleeps, gw_pc, gw_result >>

VARIABLES
    fc_store,            \* FileCache._store
    fc_now,              \* time.time()
    fc_live,             \* per key, the last put not invalidated or cleared since
    fc_last             \* the last operation and what it returned and removed

cacheVars == << fc_store, fc_now, fc_live, fc_last >>

VARIABLES
    cs_files,            \* the files of each of the two scans
    cs_pc,               \* where each scan is: "idle", "awaiting" or "done"
    cs_cache,            \* the store of the shared FileCache
    cs_tokens,           \* total_tokens_used of the shared LLMGateway
    cs_local,            \* the locals a scan keeps across its await
    cs_llm,              \* what gateway.complete returned to each scan
    cs_response,         \* the ScanResponse of each scan
    cs_access,           \* attributes of shared objects each scan has read and written
    cs_overlap          \* TRUE once a scan has started while the other was suspended

concurrentVars == << cs_files, cs_pc, cs_cache, cs_tokens, cs_local, cs_llm, cs_response, cs_access, cs_overlap >>

VARIABLES
    bs_status,           \* _background_status: scan_id -> status
    bs_scans,            \* _background_scans: scan_id -> the stored response, or None
    bs_log,              \* the scans queued so far: scan_id and how far the task is
    bs_polled           \* the last answer of the status endpoint

backgroundVars == << bs_status, bs_scans, bs_log, bs_polled >>

unitVars == << scorerVars, validatorVars, applierVars, scanVars, raceVars, graphVars,
    buildVars, subVars, gatewayVars, cacheVars, concurrentVars, backgroundVars >>

notScorer == << pipelineVars, validatorVars, applierVars, scanVars, raceVars,
    graphVars, buildVars, subVars, gatewayVars, cacheVars, concurrentVars,
    backgroundVars >>
notValidator == << pipelineVars, scorerVars, applierVars, scanVars, raceVars,
    graphVars, buildVars, subVars, gatewayVars, cacheVars, concurrentVars,
    backgroundVars >>
notApplier == << pipelineVars, scorerVars, validatorVars, scanVars, raceVars,
    graphVars, buildVars, subVars, gatewayVars, cacheVars, concurrentVars,
    backgroundVars >>
notScan == << pipelineVars, scorerVars, validatorVars, applierVars, raceVars,
    graphVars, buildVars, subVars, gatewayVars, cacheVars, concurrentVars,
    backgroundVars >>
notRace == << pipelineVars, scorerVars, validatorVars, applierVars, scanVars,
    graphVars, buildVars, subVars, gatewayVars, cacheVars, concurrentVars,
    backgroundVars >>
notGraph == << pipelineVars, scorerVars, validatorVars, applierVars, scanVars,
    raceVars, buildVars, subVars, gatewayVars, cacheVars, concurrentVars, backgroundVars >>
notBuild == << pipelineVars, scorerVars, validatorVars, applierVars, scanVars,
    raceVars, graphVars, subVars, gatewayVars, cacheVars, concurrentVars, backgroundVars >>
notSub == << pipelineVars, scorerVars, validatorVars, applierVars, scanVars, raceVars,
    graphVars, buildVars, gatewayVars, cacheVars, concurrentVars, backgroundVars >>
notGateway == << pipelineVars, scorerVars, validatorVars, applierVars, scanVars,
    raceVars, graphVars, buildVars, subVars, cacheVars, concurrentVars, backgroundVars >>
notCache == << pipelineVars, scorerVars, validatorVars, applierVars, scanVars,
    raceVars, graphVars, buildVars, subVars, gatewayVars, concurrentVars, backgroundVars >>
notConcurrent == << pipelineVars, scorerVars, validatorVars, applierVars, scanVars,
    raceVars, graphVars, buildVars, subVars, gatewayVars, cacheVars, backgroundVars >>
notBackground == << pipelineVars, scorerVars, validatorVars, applierVars, scanVars,
    raceVars, graphVars, buildVars, subVars, gatewayVars, cacheVars, concurrentVars >>

vars == << pipelineVars, unitVars >>

NoBreakdown == [total_score |-> 0, max_possible_score |-> 0,
                violation_contributions |-> << >>]

ScorerIdle ==
    /\ sc_violations = << >>
    /\ sc_depth = 0
    /\ sc_tests = {}
    /\ sc_prev = 0
    /\ sc_breakdown = NoBreakdown

\* What the validator's helpers read off a function definition node.
FuncNode(decorators, blocking, returns, handlers) ==
    [decorators |-> decorators, blocking |-> blocking,
     returns |-> returns, handlers |-> handlers]

\* What ast.parse and the validator's helpers read off a source text: whether
\* it parses, the function definitions at any level (name -> node), the
\* number of global statements and the imported module names.
Tree(parses, funcs, globals, imports) ==
    [parses |-> parses, funcs |-> funcs, globals |-> globals, imports |-> imports]

Unparseable == Tree(FALSE, [n \in {} |-> FuncNode({}, {}, 0, 0)], 0, {})

ValidatorIdle ==
    /\ va_original = Unparseable
    /\ va_patched = Unparseable
    /\ va_target = ""
    /\ va_is_async = FALSE
    /\ va_decorators = << >>
    /\ va_verdict = None

\* A source text: its lines (leading spaces, content, trailing spaces; a
\* blank line has content "") and whether the last line ends in a newline.
Line(ind, body, trail) == [ind |-> ind, body |-> body, trail |-> trail]
Text(lines, nl) == [lines |-> lines, nl |-> nl]
EmptyText == Text(<< >>, FALSE)

ApplierIdle ==
    /\ ap_source = EmptyText
    /\ ap_target = ""
    /\ ap_code = None
    /\ ap_result = None
    /\ ap_pc = "idle"

\* The last exchange of the scan route: how many files the request carried,
\* how many the size filter kept, the response fields and whether the route
\* called run_scan for it.
ScanExchange(received, kept, message, scan_id, report, scanned) ==
    [received |-> received, kept |-> kept, message |-> message,
     scan_id |-> scan_id, report |-> report, scanned |-> scanned]
NoScanResponse == ScanExchange(0, 0, "", "", None, FALSE)
NoRun == [ran |-> FALSE, files |-> << >>, report |-> None]

ScanIdle ==
    /\ sw_settings = [background_file_threshold |-> 10]
    /\ sw_cache = << >>
    /\ sw_pending = << >>
    /\ sw_background = << >>
    /\ sw_response = NoScanResponse
    /\ sw_last = NoRun
    /\ sw_probe = << >>
    /\ sw_first = None

RaceIdle ==
    /\ rc_source = << >>
    /\ rc_module_ast = None
    /\ rc_violations = None

GraphIdle ==
    /\ cg_graph = [nodes |-> {}, edges |-> {}]
    /\ cg_start = ""
    /\ cg_visited = {}
    /\ cg_queue = << >>
    /\ cg_depth = 0
    /\ cg_pc = "idle"
    /\ cg_result = None

BuildIdle ==
    /\ bg_modules = << >>
    /\ bg_names = << >>
    /\ bg_graph = [nodes |-> {}, edges |-> << >>]
    /\ bg_pc = "idle"

SubIdle ==
    /\ sg_graph = [nodes |-> {}, edges |-> {}]
    /\ sg_seeds = {}
    /\ sg_hops = 0
    /\ sg_expanded = {}
    /\ sg_frontier = {}
    /\ sg_round = 0
    /\ sg_pc = "idle"
    /\ sg_result = None

GatewayIdle ==
    /\ gw_max_retries = 0
    /\ gw_tokens = 0
    /\ gw_attempt = 0
    /\ gw_outcomes = << >>
    /\ gw_sleeps = << >>
    /\ gw_pc = "idle"
    /\ gw_result = None

CacheIdle ==
    /\ fc_store = << >>
    /\ fc_now = 0
    /\ fc_live = << >>
    /\ fc_last = [op |-> "none"]

ConcurrentIdle ==
    /\ cs_files = << >>
    /\ cs_pc = << >>
    /\ cs_cache = << >>
    /\ cs_tokens = 0
    /\ cs_local = << >>
    /\ cs_llm = << >>
    /\ cs_response = << >>
    /\ cs_access = << >>
    /\ cs_overlap = FALSE

BackgroundIdle ==
    /\ bs_status = << >>
    /\ bs_scans = << >>
    /\ bs_log = << >>
    /\ bs_polled = << >>

UnitsIdle ==
    ScorerIdle /\ ValidatorIdle /\ ApplierIdle /\ ScanIdle /\ RaceIdle /\
    GraphIdle /\ BuildIdle /\ SubIdle /\ GatewayIdle /\ CacheIdle /\ ConcurrentIdle /\
    BackgroundIdle

IdleButScorer ==
    ValidatorIdle /\ ApplierIdle /\ ScanIdle /\ RaceIdle /\
    GraphIdle /\ BuildIdle /\ SubIdle /\ GatewayIdle /\ CacheIdle /\ ConcurrentIdle /\
    BackgroundIdle
IdleButValidator ==
    ScorerIdle /\ ApplierIdle /\ ScanIdle /\ RaceIdle /\
    GraphIdle /\ BuildIdle /\ SubIdle /\ GatewayIdle /\ CacheIdle /\ ConcurrentIdle /\
    BackgroundIdle
IdleButApplier ==
    ScorerIdle /\ ValidatorIdle /\ ScanIdle /\ RaceIdle /\
    GraphIdle /\ BuildIdle /\ SubIdle /\ GatewayIdle /\ CacheIdle /\ ConcurrentIdle /\
    BackgroundIdle
IdleButScan ==
    ScorerIdle /\ ValidatorIdle /\ ApplierIdle /\ RaceIdle /\
    GraphIdle /\ BuildIdle /\ SubIdle /\ GatewayIdle /\ CacheIdle /\ ConcurrentIdle /\
    BackgroundIdle
IdleButRace ==
    ScorerIdle /\ ValidatorIdle /\ ApplierIdle /\ ScanIdle /\
    GraphIdle /\ BuildIdle /\ SubIdle /\ GatewayIdle /\ CacheIdle /\ ConcurrentIdle /\
    BackgroundIdle
IdleButGraph ==
    ScorerIdle /\ ValidatorIdle /\ ApplierIdle /\ ScanIdle /\
    RaceIdle /\ BuildIdle /\ SubIdle /\ GatewayIdle /\ CacheIdle /\ ConcurrentIdle /\
    BackgroundIdle
IdleButBuild ==
    ScorerIdle /\ ValidatorIdle /\ ApplierIdle /\ ScanIdle /\
    RaceIdle /\ GraphIdle /\ SubIdle /\ GatewayIdle /\ CacheIdle /\ ConcurrentIdle /\
    BackgroundIdle
IdleButSub ==
    ScorerIdle /\ ValidatorIdle /\ ApplierIdle /\ ScanIdle /\ RaceIdle /\
    GraphIdle /\ BuildIdle /\ GatewayIdle /\ CacheIdle /\ ConcurrentIdle /\
    BackgroundIdle
IdleButGateway ==
    ScorerIdle /\ ValidatorIdle /\ ApplierIdle /\ ScanIdle /\
    RaceIdle /\ GraphIdle /\ BuildIdle /\ SubIdle /\ CacheIdle /\ ConcurrentIdle /\
    BackgroundIdle
IdleButCache ==
    ScorerIdle /\ ValidatorIdle /\ ApplierIdle /\ ScanIdle /\
    RaceIdle /\ GraphIdle /\ BuildIdle /\ SubIdle /\ GatewayIdle /\ ConcurrentIdle /\
    BackgroundIdle
IdleButConcurrent ==
    ScorerIdle /\ ValidatorIdle /\ ApplierIdle /\ ScanIdle /\
    RaceIdle /\ GraphIdle /\ BuildIdle /\ SubIdle /\ GatewayIdle /\ CacheIdle /\
    BackgroundIdle
IdleButBackground ==
    ScorerIdle /\ ValidatorIdle /\ ApplierIdle /\ ScanIdle /\
    RaceIdle /\ GraphIdle /\ BuildIdle /\ SubIdle /\ GatewayIdle /\ CacheIdle /\
    ConcurrentIdle

NoAttempt ==
    [vi |-> 0, attempt |-> 0, path |-> "none", llm_called |-> FALSE,
     template_used |-> FALSE, candidate |-> None, source |-> None,
     patched |-> None, valid |-> FALSE, reviewed |-> FALSE,
     review_ok |-> FALSE, rescanned |-> FALSE, rescan |-> NoRescan,
     outcome |-> "none"]

NoResponse ==
    [message |-> "", total_violations |-> 0, patches_applied |-> 0,
     patches_rejected |-> 0, patches_rolled_back |-> 0,
     risk_score_before |-> 0, risk_score_after |-> 0,
     patched_sources |-> << >>]

Init ==
    /\ inputs \in { [p \in Range(Paths) |-> IF p = Paths[1] THEN c1 ELSE c2] :
                      c1 \in FirstContents, c2 \in SecondContents }
    /\ cfg \in Configs
    /\ pc = "start"
    /\ rule_result = [violations |-> << >>, rules_executed |-> << >>, raised |-> FALSE]
    /\ violations = << >>
    /\ original_risk_score = 0
    /\ current_sources = inputs
    /\ snapshots = [k \in SnapshotKeys |-> None]
    /\ results = << >>
    /\ idx = 1
    /\ attempt = 0
    /\ tmpl = None
    /\ last = NoAttempt
    /\ vetted = {}
    /\ response = NoResponse
    /\ UnitsIdle

\* ------------------------------------------------------ PatchPipeline.run
\* Step 1 and the filter: parse, run the rules, score, select the violations.
Detect ==
    /\ UNCHANGED unitVars
    /\ pc = "start"
    /\ \E rr \in {RuleEngineRun(RULE_REGISTRY, Paths, inputs)} :
          /\ rule_result' = rr
          /\ original_risk_score' = ComputeRiskScore(rr.violations, 0, {})
          /\ violations' =
                IF cfg.target_rule_ids # {}
                THEN SelectSeq(rr.violations, LAMBDA v : v.rule_id \in cfg.target_rule_ids)
                ELSE rr.violations
    /\ current_sources' = inputs
    /\ pc' = "loop"
    /\ UNCHANGED << inputs, cfg, snapshots, results, idx, attempt, tmpl, last,
                    vetted, response >>

PatchResult(v, status, patched_code, after, attempts) ==
    [rule_id |-> v.rule_id, target_function |-> v.affected_function,
     file_path |-> v.file, status |-> status, patched_code |-> patched_code,
     risk_score_before |-> original_risk_score, risk_score_after |-> after,
     llm_attempts |-> attempts]

\* The working-source map after run has recorded a result.
UpdateWorkingSourceEveryFile(sources, result) ==
    IF result.status = "applied" /\ ~IsNone(result.patched_code)
    THEN [p \in DOMAIN sources |-> result.patched_code[1]]
    ELSE sources
UpdateWorkingSource(sources, result) ==
    IF result.status = "applied" /\ ~IsNone(result.patched_code)
    THEN [sources EXCEPT ![result.file_path] = result.patched_code[1]]
    ELSE sources

\* _process_violation returned `result` having left the map as `sources`:
\* run appends it, updates the working source and moves to the next violation.
ReturnStopOnFailure(result, sources) ==
    /\ results' = Append(results, result)
    /\ current_sources' = UpdateWorkingSource(sources, result)
    /\ idx' = IF result.status = "applied" THEN idx + 1 ELSE Len(violations) + 1
    /\ pc' = "loop"
ReturnWithoutAdvance(result, sources) ==
    /\ results' = results
    /\ current_sources' = sources
    /\ idx' = idx
    /\ pc' = "loop"
Return(result, sources) ==
    /\ results' = Append(results, result)
    /\ current_sources' = UpdateWorkingSource(sources, result)
    /\ idx' = idx + 1
    /\ pc' = "loop"

\* ------------------------------------------- PatchPipeline._process_violation
CurViolation == violations[idx]

\* Entry of _process_violation when the source is missing or empty.
SourceMissing ==
    /\ UNCHANGED unitVars
    /\ pc = "loop"
    /\ idx <= Len(violations)
    /\ current_sources[CurViolation.file].empty
    /\ Return(PatchResult(CurViolation, "failed", None, 0, 0), current_sources)
    /\ last' = NoAttempt
    /\ UNCHANGED << inputs, cfg, rule_result, violations, original_risk_score,
                    snapshots, attempt, tmpl, vetted, response >>

\* Entry of _process_violation: snapshot, extract the function, read its
\* metadata; the deterministic template's answer for this function is fixed
\* from here on.
BeginViolation ==
    /\ UNCHANGED unitVars
    /\ pc = "loop"
    /\ idx <= Len(violations)
    /\ ~current_sources[CurViolation.file].empty
    /\ snapshots' = SaveSnapshot(snapshots, CurViolation.file,
                                 CurViolation.affected_function,
                                 current_sources[CurViolation.file])
    /\ tmpl' \in FallbackOutcomes(CurViolation.rule_id)
    /\ attempt' = 0
    /\ pc' = "attempt"
    /\ last' = NoAttempt
    /\ UNCHANGED << inputs, cfg, rule_result, violations, original_risk_score,
                    current_sources, results, idx, vetted, response >>

\* The use_fallback argument _process_violation passes to _generate_patch.
UseFallbackAlways(a) == cfg.use_fallback
UseFallbackOnAttempt(a) == cfg.use_fallback /\ a = cfg.max_retries

\* `attempt < self.max_retries`: another iteration follows.
MoreAttemptsOffByOne(a) == a <= cfg.max_retries
MoreAttempts(a) == a < cfg.max_retries

\* _generate_patch: the completion service when configured and not told to
\* fall back, else the template when told to fall back, else nothing.
GeneratePatch(llmOut, use_fallback) ==
    IF cfg.has_gateway /\ ~use_fallback /\ ~IsNone(llmOut)
    THEN llmOut
    ELSE IF use_fallback THEN tmpl ELSE None

\* The rollback branch: restore the snapshot into the working-source map.
RestoreFromInputs(sources, file_path, original) ==
    [sources EXCEPT ![file_path] = inputs[file_path]]
RestoreOnRollback(sources, file_path, original) ==
    IF ~IsNone(original) /\ ~original[1].empty
    THEN [sources EXCEPT ![file_path] = original[1]]
    ELSE sources

\* What follows a failed rescan.
AfterFailedRescanRetryFirst(rescan, a) ==
    IF MoreAttempts(a) THEN "continue"
    ELSE IF rescan.risk_increased THEN "rollback" ELSE "rejected"
AfterFailedRescan(rescan, a) ==
    IF rescan.risk_increased THEN "rollback"
    ELSE IF MoreAttempts(a) THEN "continue" ELSE "rejected"

\* The status a rescan leads to ("continue": next iteration).
StatusAfterRescanLenient(rescan, a) ==
    IF rescan.target_rule_eliminated THEN "applied" ELSE AfterFailedRescan(rescan, a)
StatusAfterRescan(rescan, a) ==
    IF rescan.passed THEN "applied" ELSE AfterFailedRescan(rescan, a)

\* One iteration of the generation loop, for one answer of the completion
\* service (llmOut, None when it fails) and one answer of the review.
AttemptOutcome(llmOut, reviewOk) ==
    LET v        == CurViolation
        source   == current_sources[v.file]
        fn       == v.affected_function
        flag     == UseFallbackOnAttempt(attempt)
        called   == cfg.has_gateway /\ ~flag
        new_code == GeneratePatch(llmOut, flag)
        patched  == IF IsNone(new_code) THEN None
                    ELSE ApplyFunctionPatch(source, fn, new_code[1])
        valid    == ~IsNone(patched) /\ ValidatePatchAst(source, patched[1], fn, new_code[1])
        reviewed == valid /\ cfg.review_enabled /\ cfg.has_gateway /\ MoreAttempts(attempt)
        flagged  == reviewed /\ ~reviewOk
        rescanned == valid /\ ~flagged
        rescan   == IF rescanned
                    THEN RescanPatchedSource(patched[1], v.file, v.rule_id, original_risk_score)
                    ELSE NoRescan
        verdict  == StatusAfterRescan(rescan, attempt)
        path     == IF IsNone(new_code) THEN "no_candidate"
                    ELSE IF IsNone(patched) THEN "apply_failed"
                    ELSE IF ~valid THEN "invalid"
                    ELSE IF flagged THEN "review_flagged"
                    ELSE IF verdict = "applied" THEN "rescan_passed"
                    ELSE "rescan_failed"
        retry    == IF MoreAttempts(attempt) THEN "continue" ELSE "rejected"
        outcome  == CASE path = "no_candidate"   ->
                            IF MoreAttempts(attempt) THEN "continue" ELSE "failed"
                      [] path = "apply_failed"   -> retry
                      [] path = "invalid"        -> retry
                      [] path = "review_flagged" -> "continue"
                      [] OTHER                   -> verdict
    IN [vi |-> idx, attempt |-> attempt + 1, path |-> path,
        llm_called |-> called, template_used |-> flag,
        candidate |-> new_code, source |-> Some(source), patched |-> patched,
        valid |-> valid, reviewed |-> reviewed, review_ok |-> reviewed /\ reviewOk,
        rescanned |-> rescanned, rescan |-> rescan, outcome |-> outcome]

\* The effect of one iteration on the state.
Commit(o) ==
    LET v == CurViolation
    IN /\ last' = o
       /\ vetted' = IF ~IsNone(o.patched) /\ o.valid /\ o.rescanned /\ o.rescan.passed
                     THEN vetted \cup {o.patched[1]} ELSE vetted
       /\ IF o.outcome = "continue"
          THEN /\ attempt' = attempt + 1
               /\ UNCHANGED << pc, results, current_sources, idx >>
          ELSE /\ attempt' = attempt
               /\ Return(
                    PatchResult(v, o.outcome,
                                IF o.outcome = "applied" THEN o.patched ELSE None,
                                o.rescan.risk_score_after, o.attempt),
                    IF o.outcome = "rollback"
                    THEN RestoreOnRollback(current_sources, v.file,
                                           Rollback(snapshots, v.file, v.affected_function))
                    ELSE current_sources)
       /\ UNCHANGED << inputs, cfg, rule_result, violations, original_risk_score,
                       snapshots, tmpl, response >>
       /\ UNCHANGED unitVars

LlmAnswers == {None} \cup { Some(c) : c \in Codes }

\* The answers the completion service and the review can give on this
\* iteration (a service that is not called gives none).
LlmChoices ==
    IF cfg.has_gateway /\ ~UseFallbackOnAttempt(attempt) THEN LlmAnswers ELSE {None}
ReviewChoices ==
    IF cfg.review_enabled /\ cfg.has_gateway /\ MoreAttempts(attempt)
    THEN BOOLEAN ELSE {TRUE}

Step(llmOut, reviewOk, path) ==
    \E o \in {AttemptOutcome(llmOut, reviewOk)} : o.path = path /\ Commit(o)

\* No candidate was generated (lines 217-222).
AttemptNoCandidate ==
    /\ pc = "attempt"
    /\ \E llmOut \in LlmChoices : Step(llmOut, TRUE, "no_candidate")

\* apply_function_patch returned None (lines 225-231).
AttemptApplyFailed ==
    /\ pc = "attempt"
    /\ \E llmOut \in LlmChoices : Step(llmOut, TRUE, "apply_failed")

\* The structural validator rejected the patched file (lines 233-249).
AttemptInvalid ==
    /\ pc = "attempt"
    /\ \E llmOut \in LlmChoices : Step(llmOut, TRUE, "invalid")

\* The review answered safe=false (lines 252-256).
AttemptReviewFlagged ==
    /\ pc = "attempt"
    /\ \E llmOut \in LlmChoices : Step(llmOut, FALSE, "review_flagged")

\* The rescan passed (lines 268-273).
AttemptRescanPassed ==
    /\ pc = "attempt"
    /\ \E llmOut \in LlmChoices, reviewOk \in ReviewChoices :
          Step(llmOut, reviewOk, "rescan_passed")

\* The rescan failed (lines 274-290).
AttemptRescanFailed ==
    /\ pc = "attempt"
    /\ \E llmOut \in LlmChoices, reviewOk \in ReviewChoices :
          Step(llmOut, reviewOk, "rescan_failed")

\* Final scoring and the response (lines 122-149).
Finish ==
    /\ UNCHANGED unitVars
    /\ pc = "loop"
    /\ idx > Len(violations)
    /\ \E final \in {RuleEngineRun(RULE_REGISTRY, Paths, current_sources)} :
       LET count(st) == Len(SelectSeq(results, LAMBDA r : r.status = st))
       IN response' =
            [message |-> "patch_complete",
             total_violations |-> Len(violations),
             patches_applied |-> count("applied"),
             patches_rejected |-> count("rejected"),
             patches_rolled_back |-> count("rollback"),
             risk_score_before |-> original_risk_score,
             risk_score_after |-> ComputeRiskScore(final.violations, 0, {}),
             patched_sources |-> current_sources]
    /\ pc' = "done"
    /\ last' = NoAttempt
    /\ tmpl' = None
    /\ UNCHANGED << inputs, cfg, rule_result, violations, original_risk_score,
                    current_sources, snapshots, results, idx, attempt, vetted >>

Next ==
    \/ Detect
    \/ SourceMissing
    \/ BeginViolation
    \/ AttemptNoCandidate
    \/ AttemptApplyFailed
    \/ AttemptInvalid
    \/ AttemptReviewFlagged
    \/ AttemptRescanPassed
    \/ AttemptRescanFailed
    \/ Finish

Spec == Init /\ [][Next]_vars

\* ------------------------------------------------------------------ claims
AttemptMade == last.path # "none"
LastViolation == violations[last.vi]
LastReturned == AttemptMade /\ last.outcome # "continue"

\* C1: every entry of the working-source map is the input content of that
\* file or the patched source of a candidate that, on one attempt, was
\* produced by apply_function_patch, judged valid by the validator and
\* passed by the rescan; a candidate that failed one of them is never written.
C1_WorkingSourceVetted ==
    \A p \in Range(Paths) :
        current_sources[p] = inputs[p] \/ current_sources[p] \in vetted

C1_Witness ==
    /\ \E p \in Range(Paths) : current_sources[p] # inputs[p]
    /\ \E i \in 1..Len(results) : results[i].status \in {"rejected", "rollback"}

\* C2: when the rescan of a candidate reports risk_increased, then after
\* that violation's step the map entry of the affected file equals the
\* snapshot saved for (file, function) at the start of the step (the source
\* the step started from), and the violation's status is rollback.
C2_RollbackRestoresSnapshot ==
    (AttemptMade /\ last.rescanned /\ last.rescan.risk_increased) =>
        /\ pc = "loop"
        /\ results[last.vi].status = "rollback"
        /\ snapshots[<< LastViolation.file, LastViolation.affected_function >>]
              = last.source
        /\ Some(current_sources[LastViolation.file]) = last.source

C2_Witness ==
    /\ AttemptMade /\ last.rescanned /\ last.rescan.risk_increased
    /\ results[last.vi].status = "rollback"
    /\ current_sources[LastViolation.file] # inputs[LastViolation.file]

\* C3: the response of every run has risk_score_after <= risk_score_before.
C3_RiskNeverIncreases ==
    pc = "done" => response.risk_score_after <= response.risk_score_before

\* C4: one PatchResult per filtered violation, in the order of the rule
\* engine (registry order, then module insertion order); a violation that
\* ends rejected, rollback or failed does not stop the later ones, and
\* total_violations equals the number of results.
IndexIn(seq, x) == CHOOSE i \in 1..Len(seq) : seq[i] = x

EngineOrdered(vs) ==
    \A i, j \in 1..Len(vs) :
        i < j =>
            \/ IndexIn(RULE_REGISTRY, vs[i].rule_id) < IndexIn(RULE_REGISTRY, vs[j].rule_id)
            \/ /\ vs[i].rule_id = vs[j].rule_id
               /\ IndexIn(Paths, vs[i].file) <= IndexIn(Paths, vs[j].file)

C4_OneResultPerViolation ==
    /\ EngineOrdered(violations)
    /\ pc # "start" =>
          violations = SelectSeq(rule_result.violations,
                          LAMBDA v : cfg.target_rule_ids = {}
                                     \/ v.rule_id \in cfg.target_rule_ids)
    /\ Len(results) = idx - 1
    /\ Len(results) <= Len(violations)
    /\ \A i \in 1..Len(results) :
          /\ results[i].rule_id = violations[i].rule_id
          /\ results[i].file_path = violations[i].file
          /\ results[i].target_function = violations[i].affected_function
          /\ results[i].status \in {"applied", "rejected", "rollback", "failed"}
    /\ pc = "done" =>
          /\ Len(results) = Len(violations)
          /\ response.total_violations = Len(results)

C4_Witness ==
    /\ pc = "done"
    /\ \E i, j \in 1..Len(results) :
          /\ i < j
          /\ results[i].status \in {"rejected", "rollback", "failed"}
          /\ results[j].llm_attempts > 0

\* C5: the rescan passes iff the target rule has no violation left, no
\* critical or high violation of another rule newly appeared (one absent
\* before the patch), and risk_score_after <= risk_score_before.
PresentBefore(v, before) ==
    \E k \in 1..Len(before) :
        /\ before[k].rule_id = v.rule_id
        /\ before[k].affected_function = v.affected_function
        /\ before[k].file = v.file

NewlyAppeared(after, before, target_rule_id) ==
    SelectSeq(after, LAMBDA v : /\ v.rule_id # target_rule_id
                                /\ IsCriticalOrHigh(v)
                                /\ ~PresentBefore(v, before))

C5_PassedIffThreeConditions ==
    (AttemptMade /\ last.rescanned) =>
        LET file   == LastViolation.file
            before == RuleEngineRun(RULE_REGISTRY, << file >>,
                                    [p \in {file} |-> last.source[1]]).violations
            after  == last.rescan.violations
            target == LastViolation.rule_id
        IN last.rescan.passed <=>
              /\ Len(SelectSeq(after, LAMBDA v : v.rule_id = target)) = 0
              /\ Len(NewlyAppeared(after, before, target)) = 0
              /\ last.rescan.risk_score_after <= last.rescan.risk_score_before

\* C6: a rescan that fails with risk_increased ends the violation at once
\* with status rollback; one that fails without risk_increased is followed
\* by another attempt while the retry cap is not reached, and by status
\* rejected when it is.
C6_RescanFailureHandling ==
    (AttemptMade /\ last.rescanned /\ ~last.rescan.passed) =>
        IF last.rescan.risk_increased
        THEN /\ pc = "loop" /\ idx = last.vi + 1
             /\ results[last.vi].status = "rollback"
             /\ results[last.vi].llm_attempts = last.attempt
        ELSE IF last.attempt - 1 < cfg.max_retries
        THEN pc = "attempt" /\ idx = last.vi /\ attempt = last.attempt
        ELSE /\ pc = "loop" /\ idx = last.vi + 1
             /\ results[last.vi].status = "rejected"

C6_Witness ==
    /\ AttemptMade /\ last.rescanned /\ ~last.rescan.passed
    /\ last.rescan.risk_increased
    /\ last.attempt - 1 < cfg.max_retries
    /\ results[last.vi].status = "rollback"

\* C7 (as claimed): llm_attempts never exceeds max_retries.
C7_AttemptsAtMostMaxRetries ==
    /\ \A i \in 1..Len(results) : results[i].llm_attempts <= cfg.max_retries
    /\ AttemptMade => last.attempt <= cfg.max_retries

\* C7 (amended): llm_attempts never exceeds max_retries + 1.
C7_AttemptsAtMostMaxRetriesPlusOne ==
    /\ \A i \in 1..Len(results) : results[i].llm_attempts <= cfg.max_retries + 1
    /\ AttemptMade => last.attempt <= cfg.max_retries + 1

C7_Witness ==
    /\ cfg.max_retries >= 1
    /\ \E i \in 1..Len(results) : results[i].llm_attempts = cfg.max_retries + 1

\* C8: with a completion service configured and use_fallback true, the
\* final attempt of the retry budget takes its candidate from the
\* deterministic template and does not call the service; every earlier
\* attempt calls the service.
C8_FinalAttemptUsesTemplate ==
    (AttemptMade /\ cfg.has_gateway /\ cfg.use_fallback) =>
        IF last.attempt = cfg.max_retries + 1
        THEN ~last.llm_called /\ last.template_used /\ last.candidate = tmpl
        ELSE last.llm_called /\ ~last.template_used

C8_Witness ==
    /\ AttemptMade /\ cfg.has_gateway /\ cfg.use_fallback
    /\ cfg.max_retries >= 1
    /\ last.attempt = cfg.max_retries + 1
    /\ ~IsNone(last.candidate)

\* C9: in a run that permits fallback, an attempt without a completion
\* service (or with use_fallback set for it) uses the template of the rule
\* as the candidate, and no attempt ends without a candidate while a
\* template for the rule exists; when the last attempt yields no candidate
\* the violation ends failed with the working source unchanged and the run
\* goes on with the next violation.
C9_TemplateUsedWhenNoService ==
    AttemptMade =>
        /\ (cfg.use_fallback /\ (~cfg.has_gateway \/ last.template_used))
              => last.candidate = tmpl
        /\ (cfg.use_fallback /\ ~IsNone(tmpl)) => ~IsNone(last.candidate)
        /\ (LastReturned /\ IsNone(last.candidate)) =>
              /\ results[last.vi].status = "failed"
              /\ Some(current_sources[LastViolation.file]) = last.source
              /\ pc = "loop" /\ idx = last.vi + 1

\* C10: a rule check that raises on a module leaves exactly one low-severity
\* internal-error violation for that (rule, module); every other rule, and
\* the same rule on every other module, still reports its findings;
\* rules_executed lists the whole registry and run does not raise.
ViolationsOf(vs, rule, path) ==
    SelectSeq(vs, LAMBDA v : v.rule_id = rule /\ v.file = path)

C10_RuleFailureIsolated ==
    pc # "start" =>
        /\ ~rule_result.raised
        /\ rule_result.rules_executed = RULE_REGISTRY
        /\ \A k \in 1..Len(RULE_REGISTRY), p \in Range(Paths) :
              LET vs == ViolationsOf(rule_result.violations, RULE_REGISTRY[k], p)
              IN IF RULE_REGISTRY[k] \in inputs[p].raises
                 THEN /\ Len(vs) = 1
                      /\ vs[1].severity = "low"
                      /\ vs[1].title = "internal error"
                 ELSE vs = RuleViolations(RULE_REGISTRY[k], p, inputs[p])

C10_Witness ==
    /\ pc # "start"
    /\ \E p \in Range(Paths) :
          /\ "dangerous_eval" \in inputs[p].raises
          /\ Len(ViolationsOf(rule_result.violations, "blocking_io_in_async", p)) = 1
          /\ \E q \in Range(Paths) \ {p} :
                Len(ViolationsOf(rule_result.violations, "dangerous_eval", q)) = 1

\* C11 (as claimed): the default registry runs 12 rules on every run, the
\* four newer rule ids among them next to the eight original ones.
C11_TwelveRulesExecuted ==
    pc \in {"loop", "attempt", "done"} =>
        /\ Len(rule_result.rules_executed) = 12
        /\ { "db_conn_per_request", "missing_idempotency",
             "partial_txn_no_rollback", "missing_http_timeout",
             "race_condition", "missing_await", "unsanitized_io",
             "dangerous_eval", "shared_mutable_state",
             "missing_exception_boundary", "retry_without_backoff",
             "blocking_io_in_async" } \subseteq Range(rule_result.rules_executed)

\* ===================================================== component: risk scorer
MaxViolations == 3
MaxGraphDepth == 2

\* The pipeline's variables while a component-level specification runs.
PipelineIdle ==
    /\ inputs = [p \in Range(Paths) |-> Src(F1({}), {}, FALSE)]
    /\ cfg = [max_retries |-> 0, use_fallback |-> FALSE, has_gateway |-> FALSE,
              review_enabled |-> FALSE, target_rule_ids |-> {}]
    /\ pc = "idle"
    /\ rule_result = [violations |-> << >>, rules_executed |-> << >>, raised |-> FALSE]
    /\ violations = << >>
    /\ original_risk_score = 0
    /\ current_sources = inputs
    /\ snapshots = [k \in SnapshotKeys |-> None]
    /\ results = << >>
    /\ idx = 1
    /\ attempt = 0
    /\ tmpl = None
    /\ last = NoAttempt
    /\ vetted = {}
    /\ response = NoResponse

\* round(raw_score) as the code computes it, in double arithmetic: the exact
\* rounding, except that a quotient lying exactly on a tie is reached by a
\* double carrying the rounding error of the factors 0.2 and 0.3 and of the
\* division, which round() takes to either neighbour.
RoundedDouble(num, den) ==
    IF 2 * (num % den) = den
    THEN {num \div den, num \div den + 1}
    ELSE {RoundHalfEven(num, den)}

\* max_possible taken for a single violation and the result left unclamped.
TotalScoresPerViolationMax(viols, graphDepth, testFailures) ==
    IF Len(viols) = 0 THEN {0}
    ELSE LET maxDepth == IF graphDepth = 0 THEN 1 ELSE graphDepth
             total    == SumWeighted(viols, maxDepth, testFailures)
         IN RoundedDouble(total, 2 * maxDepth)
\* The total_score values compute_risk_score can return.
TotalScores(viols, graphDepth, testFailures) ==
    IF Len(viols) = 0 THEN {0}
    ELSE LET maxDepth == IF graphDepth = 0 THEN 1 ELSE graphDepth
             total    == SumWeighted(viols, maxDepth, testFailures)
         IN { Min(100, Max(0, r)) :
                r \in RoundedDouble(total, 2 * Len(viols) * maxDepth) }

\* The RiskBreakdown compute_risk_score returns with total_score = score
\* (weighted_score scaled by 10 * maxDepth, as in WeightedScoreScaled).
RiskBreakdown(viols, graphDepth, testFailures, score) ==
    LET maxDepth == IF graphDepth = 0 THEN 1 ELSE graphDepth
    IN [total_score |-> score,
        max_possible_score |-> Len(viols) * 10 * 2,
        violation_contributions |->
            [i \in 1..Len(viols) |->
                [rule_id |-> viols[i].rule_id,
                 severity |-> viols[i].severity,
                 base_weight |-> SEVERITY_WEIGHTS[viols[i].severity],
                 weighted_score |->
                    WeightedScoreScaled(viols[i], maxDepth, testFailures)]]]

\* Violations handed to the scorer: any severity, a rule with or without the
\* state-mutation and async factors, a node of blast radius 0 or maximal.
ScorerViolations(graphDepth) ==
    { [Violation(r, s, "a.py", "f", "finding") EXCEPT !.blast = b] :
        r \in {"dangerous_eval", "race_condition"},
        s \in DOMAIN SEVERITY_WEIGHTS,
        b \in {0, graphDepth} }

InitScorer ==
    /\ PipelineIdle
    /\ IdleButScorer
    /\ sc_violations = << >>
    /\ sc_depth \in 0..MaxGraphDepth
    /\ sc_tests \in { {}, {"race_condition"} }
    /\ sc_prev = 0
    /\ sc_breakdown = None

\* compute_risk_score on the empty list.
ScoreEmpty ==
    /\ IsNone(sc_breakdown)
    /\ \E s \in TotalScores(sc_violations, sc_depth, sc_tests) :
          sc_breakdown' = Some(RiskBreakdown(sc_violations, sc_depth, sc_tests, s))
    /\ UNCHANGED << sc_violations, sc_depth, sc_tests, sc_prev >>
    /\ UNCHANGED notScorer

\* compute_risk_score on the list extended by one violation, same call graph
\* and same test-failure set.
ScoreExtended ==
    /\ ~IsNone(sc_breakdown)
    /\ Len(sc_violations) < MaxViolations
    /\ \E v \in ScorerViolations(sc_depth) :
          LET vs == Append(sc_violations, v)
          IN /\ sc_violations' = vs
             /\ \E s \in TotalScores(vs, sc_depth, sc_tests) :
                   sc_breakdown' = Some(RiskBreakdown(vs, sc_depth, sc_tests, s))
    /\ sc_prev' = sc_breakdown[1].total_score
    /\ UNCHANGED << sc_depth, sc_tests >>
    /\ UNCHANGED notScorer

NextScorer == ScoreEmpty \/ ScoreExtended

SpecScorer == InitScorer /\ [][NextScorer]_vars

\* C12 (as claimed): the score of a list extended by one violation is at
\* least the score of the list, for the same call graph and test failures.
C12_AddingNeverDecreases ==
    ~IsNone(sc_breakdown) => sc_breakdown[1].total_score >= sc_prev

\* C13: total_score is an integer in 0..100 for every list, with or without
\* a call graph and for any test-failure set; the empty list scores 0 with
\* no contributions.
C13_ScoreBounded ==
    ~IsNone(sc_breakdown) =>
        /\ sc_breakdown[1].total_score \in 0..100
        /\ Len(sc_breakdown[1].violation_contributions) = Len(sc_violations)
        /\ sc_violations = << >> =>
              /\ sc_breakdown[1].total_score = 0
              /\ sc_breakdown[1].violation_contributions = << >>

C13_Witness ==
    /\ ~IsNone(sc_breakdown)
    /\ Len(sc_violations) >= 2
    /\ sc_depth > 0
    /\ sc_breakdown[1].total_score = 100

\* ============================================ component: structural validator
MaxStmts == 1

FORBIDDEN_IMPORTS ==
    { "os.system", "subprocess", "eval", "exec", "compile", "__import__",
      "importlib", "ctypes", "pickle" }

\* `forbidden in imp` for the module names the model sources import: the
\* substring test of check 5 ("json" and "os" contain no forbidden name,
\* "subprocess" and "pickletools" do).
ForbiddenIn(imp) ==
    \/ imp \in FORBIDDEN_IMPORTS
    \/ imp = "pickletools"

\* _is_route_decorator, for the decorator names of the model sources.
IsRouteDecorator(name) == name \in {"app.get", "router.post"}

\* _find_function(tree, name): the node, or None.
FindFunction(tree, name) ==
    IF name \in DOMAIN tree.funcs THEN Some(tree.funcs[name]) ELSE None

\* The errors checks 2 to 7 append, in order, for two sources that parse.
Check2(original, patched, target) ==
    IF target \in DOMAIN original.funcs /\ target \notin DOMAIN patched.funcs
    THEN << "renamed or removed" >> ELSE << >>

Check3(patched, target, decorators) ==
    LET node == FindFunction(patched, target)
    IN IF Len(decorators) > 0 /\ ~IsNone(node)
       THEN SelectSeq([i \in 1..Len(decorators) |->
                          IF IsRouteDecorator(decorators[i])
                             /\ decorators[i] \notin node[1].decorators
                          THEN "route decorator" ELSE ""],
                      LAMBDA e : e # "")
       ELSE << >>

Check4(original, patched) ==
    IF patched.globals > original.globals THEN << "new global" >> ELSE << >>

Check5(original, patched) ==
    LET new_imports == patched.imports \ original.imports
    IN [i \in 1..Cardinality({ imp \in new_imports : ForbiddenIn(imp) }) |->
            "forbidden import"]

Check6(patched, target, is_async) ==
    LET node == FindFunction(patched, target)
    IN IF is_async /\ ~IsNone(node) /\ node[1].blocking # {}
       THEN << "blocking call" >> ELSE << >>

Check7(original, patched, target) ==
    LET o == FindFunction(original, target)
        n == FindFunction(patched, target)
    IN IF ~IsNone(o) /\ ~IsNone(n)
       THEN (IF n[1].returns < o[1].returns THEN << "removes return" >> ELSE << >>)
            \o (IF n[1].handlers < o[1].handlers THEN << "removes handler" >> ELSE << >>)
       ELSE << >>

\* ValidationVerdict: valid is cleared by add_error and by nothing else.
Verdict(errors) == [valid |-> Len(errors) = 0, errors |-> errors]

\* validate_patch_ast
ValidatePatchAstFull(original, patched, target, is_async, decorators) ==
    IF ~patched.parses THEN Verdict(<< "syntax error" >>)
    ELSE IF ~original.parses THEN Verdict(<< >>)
    ELSE Verdict(Check2(original, patched, target)
                 \o Check3(patched, target, decorators)
                 \o Check4(original, patched)
                 \o Check5(original, patched)
                 \o Check6(patched, target, is_async)
                 \o Check7(original, patched, target))

\* Sources handed to the validator.  Only the target's node is read in
\* detail, so the other function carries a fixed node.
OtherNode == FuncNode({}, {}, 0, 0)

FuncMaps(names, node) ==
    [n \in names |-> IF n = "f" THEN node ELSE OtherNode]

OriginalTrees ==
    {Unparseable} \cup
    { Tree(TRUE, FuncMaps(names, FuncNode({}, {}, r, h)), g, imps) :
        names \in {{"f"}, {"f", "g"}},
        r \in 0..MaxStmts, h \in 0..MaxStmts,
        g \in 0..MaxStmts, imps \in {{}, {"subprocess"}} }
    \cup
    { Tree(TRUE, FuncMaps({"g"}, OtherNode), g, imps) :
        g \in 0..MaxStmts, imps \in {{}, {"subprocess"}} }

PatchedTrees ==
    {Unparseable} \cup
    { Tree(TRUE, FuncMaps(names, FuncNode(d, b, r, h)), g, imps) :
        names \in {{"f"}, {"f", "g"}},
        d \in {{}, {"app.get"}}, b \in {{}, {"time.sleep"}},
        r \in 0..MaxStmts, h \in 0..MaxStmts,
        g \in 0..MaxStmts, imps \in {{}, {"subprocess"}, {"json"}} }
    \cup
    { Tree(TRUE, FuncMaps(names, OtherNode), g, imps) :
        names \in {{}, {"g"}},
        g \in 0..MaxStmts, imps \in {{}, {"subprocess"}, {"json"}} }

InitValidator ==
    /\ PipelineIdle
    /\ IdleButValidator
    /\ va_original \in OriginalTrees
    /\ va_patched \in PatchedTrees
    /\ va_target = "f"
    /\ va_is_async \in BOOLEAN
    /\ va_decorators \in { << >>, << "app.get" >> }
    /\ va_verdict = None

Validate ==
    /\ IsNone(va_verdict)
    /\ va_verdict' = Some(ValidatePatchAstFull(va_original, va_patched, va_target,
                                               va_is_async, va_decorators))
    /\ UNCHANGED << va_original, va_patched, va_target, va_is_async, va_decorators >>
    /\ UNCHANGED notValidator

NextValidator == Validate

SpecValidator == InitValidator /\ [][NextValidator]_vars

\* Function names a source defines (none when it does not parse).
DefinedIn(tree) == IF tree.parses THEN DOMAIN tree.funcs ELSE {}

\* C14 (as claimed): the verdict is invalid whenever a function name defined
\* in the original, the target or any other, is not defined in the patched
\* source.
C14_NoFunctionNameLost ==
    (~IsNone(va_verdict) /\ DefinedIn(va_original) \ DefinedIn(va_patched) # {})
        => ~va_verdict[1].valid

\* C15 (as claimed): valid iff errors is empty, and the verdict is invalid
\* with an error whenever one check fails, whatever the other checks give:
\* the patched source does not parse, the number of global statements grows,
\* a new import is forbidden, the async target holds a blocking call, or the
\* target loses return statements or except-handlers.
TargetIn(tree) ==
    IF tree.parses THEN FindFunction(tree, va_target) ELSE None

SomeCheckFails ==
    \/ ~va_patched.parses
    \/ /\ va_patched.parses /\ va_original.parses
       /\ \/ va_patched.globals > va_original.globals
          \/ \E imp \in va_patched.imports \ va_original.imports : ForbiddenIn(imp)
    \/ /\ va_is_async
       /\ ~IsNone(TargetIn(va_patched))
       /\ TargetIn(va_patched)[1].blocking # {}
    \/ /\ ~IsNone(TargetIn(va_original)) /\ ~IsNone(TargetIn(va_patched))
       /\ \/ TargetIn(va_patched)[1].returns < TargetIn(va_original)[1].returns
          \/ TargetIn(va_patched)[1].handlers < TargetIn(va_original)[1].handlers

C15_NoPartialSuccess ==
    ~IsNone(va_verdict) =>
        /\ va_verdict[1].valid <=> va_verdict[1].errors = << >>
        /\ SomeCheckFails =>
              ~va_verdict[1].valid /\ Len(va_verdict[1].errors) >= 1

\* ==================================================== component: patch applier
MaxSpaces == 1
IndentWidth == 4

IsBlank(l) == l.body = ""
IsHeader(l) == l.body \in {"class A:", "def f():", "def g():"}
IsDecorator(l) == l.body = "@dec"

Last(seq) == seq[Len(seq)]
Front(seq) == SubSeq(seq, 1, Len(seq) - 1)

\* ast.parse, as far as it depends on the layout: every header is followed
\* by a deeper block, every other line returns to an enclosing level.
RECURSIVE PopTo(_, _)
PopTo(stack, ind) ==
    IF Len(stack) > 1 /\ Last(stack) > ind THEN PopTo(Front(stack), ind) ELSE stack

RECURSIVE ParseScan(_, _, _, _)
ParseScan(lines, i, stack, expectDeeper) ==
    IF i > Len(lines) THEN ~expectDeeper
    ELSE IF IsBlank(lines[i]) THEN ParseScan(lines, i + 1, stack, expectDeeper)
    ELSE IF expectDeeper
         THEN /\ lines[i].ind > Last(stack)
              /\ ParseScan(lines, i + 1, Append(stack, lines[i].ind), IsHeader(lines[i]))
         ELSE LET st == PopTo(stack, lines[i].ind)
              IN /\ Last(st) = lines[i].ind
                 /\ ParseScan(lines, i + 1, st, IsHeader(lines[i]))

Parses(text) == ParseScan(text.lines, 1, << 0 >>, FALSE)

\* The function node ast.walk finds first for `name`: the line of its def,
\* of its first decorator, and its end_lineno; None when there is none.
DefLines(lines, name) ==
    { i \in 1..Len(lines) : lines[i].body = "def " \o name \o "():" }

RECURSIVE FirstDecorator(_, _)
FirstDecorator(lines, i) ==
    IF i > 1 /\ IsDecorator(lines[i - 1]) /\ lines[i - 1].ind = lines[i].ind
    THEN FirstDecorator(lines, i - 1) ELSE i

EndLine(lines, i) ==
    LET inBlock(j) == \A k \in (i + 1)..j :
                         IsBlank(lines[k]) \/ lines[k].ind > lines[i].ind
        ends == { j \in i..Len(lines) : ~IsBlank(lines[j]) /\ inBlock(j) }
    IN CHOOSE j \in ends : \A k \in ends : k <= j

FindFunctionNode(text, name) ==
    IF ~Parses(text) \/ DefLines(text.lines, name) = {} THEN None
    ELSE LET i == CHOOSE d \in DefLines(text.lines, name) :
                     \A e \in DefLines(text.lines, name) : d <= e
         IN Some([lineno |-> i,
                  start_line |-> FirstDecorator(text.lines, i),
                  end_lineno |-> EndLine(text.lines, i)])

\* _extract_function_source: "\n".join(lines[start:end]) of source.splitlines().
ExtractFunctionSource(source, func_name) ==
    LET node == FindFunctionNode(source, func_name)
    IN IF func_name = "" \/ IsNone(node) THEN None
       ELSE Some(Text(SubSeq(source.lines, node[1].start_line, node[1].end_lineno),
                      FALSE))

\* textwrap.dedent: lines of whitespace only become empty, the margin common
\* to the other lines is removed from them.
SetMin(S) == CHOOSE m \in S : \A x \in S : m <= x

Dedent(text) ==
    LET inds   == { text.lines[i].ind : i \in { k \in 1..Len(text.lines) :
                                                  ~IsBlank(text.lines[k]) } }
        margin == IF inds = {} THEN 0 ELSE SetMin(inds)
    IN Text([i \in 1..Len(text.lines) |->
                IF IsBlank(text.lines[i]) THEN Line(0, "", 0)
                ELSE [text.lines[i] EXCEPT !.ind = @ - margin]],
            text.nl)

\* str.strip(): leading and trailing whitespace, newlines included.
Strip(text) ==
    LET full == { i \in 1..Len(text.lines) : ~IsBlank(text.lines[i]) }
    IN IF full = {} THEN EmptyText
       ELSE LET a  == SetMin(full)
                b  == CHOOSE j \in full : \A k \in full : k <= j
                ls == SubSeq(text.lines, a, b)
            IN Text([i \in 1..Len(ls) |->
                        [ls[i] EXCEPT !.ind = IF i = 1 THEN 0 ELSE @,
                                      !.trail = IF i = Len(ls) THEN 0 ELSE @]],
                    FALSE)

\* textwrap.indent: the prefix goes in front of every line that is not
\* whitespace only.
Indent(text, prefix) ==
    Text([i \in 1..Len(text.lines) |->
             IF IsBlank(text.lines[i]) THEN text.lines[i]
             ELSE [text.lines[i] EXCEPT !.ind = @ + prefix]],
         text.nl)

\* The new code re-indented as lines 66-75 do it for the target's indent.
IndentedNew(new_function_code, original_indent) ==
    LET dedented_new == Dedent(new_function_code)
        indented_new == IF original_indent > 0
                        THEN Indent(Strip(dedented_new), original_indent)
                        ELSE Strip(dedented_new)
    IN Text(indented_new.lines, TRUE)

\* apply_function_patch on texts: None when the source or the result does
\* not parse or the function is not found.
ApplyFunctionPatchText(source, target_function, new_function_code) ==
    LET node == FindFunctionNode(source, target_function)
    IN IF IsNone(node) THEN None
       ELSE LET start_line == node[1].start_line
                end_line   == node[1].end_lineno
                original_indent == source.lines[start_line].ind
                indented_new == IndentedNew(new_function_code, original_indent)
                before  == SubSeq(source.lines, 1, start_line - 1)
                after   == SubSeq(source.lines, end_line + 1, Len(source.lines))
                patched == Text(before \o indented_new.lines \o after,
                                IF Len(after) = 0 THEN TRUE ELSE source.nl)
            IN IF Parses(patched) THEN Some(patched) ELSE None

\* Sources handed to the applier: f, possibly a method of a class, possibly
\* decorated, possibly after another function and before another statement;
\* its two statements may carry trailing spaces and be separated by a line
\* that is empty or holds spaces only.
Optional(cond, line) == IF cond THEN << line >> ELSE << >>

ApplierSource(inClass, other, decorated, trailMid, blank, trailLast, follow, nl) ==
    LET base == IF inClass THEN IndentWidth ELSE 0
    IN Text(   Optional(inClass, Line(0, "class A:", 0))
            \o (IF other
                THEN << Line(base, "def g():", 0),
                        Line(base + IndentWidth, "return a", 0),
                        Line(0, "", 0) >>
                ELSE << >>)
            \o Optional(decorated, Line(base, "@dec", 0))
            \o << Line(base, "def f():", 0),
                  Line(base + IndentWidth, "a = 1", trailMid) >>
            \o Optional(blank >= 0, Line(IF blank >= 0 THEN blank ELSE 0, "", 0))
            \o << Line(base + IndentWidth, "return a", trailLast) >>
            \o Optional(follow, Line(0, "x = 2", 0)),
            nl)

ApplierSources ==
    { ApplierSource(inClass, other, decorated, trailMid, blank, trailLast, follow, nl) :
        inClass \in BOOLEAN, other \in BOOLEAN, decorated \in BOOLEAN,
        trailMid \in 0..MaxSpaces, blank \in (-1)..MaxSpaces,
        trailLast \in 0..MaxSpaces, follow \in BOOLEAN, nl \in BOOLEAN }

InitApplier ==
    /\ PipelineIdle
    /\ IdleButApplier
    /\ ap_source \in ApplierSources
    /\ ap_target \in { n \in {"f", "g"} : DefLines(ap_source.lines, n) # {} }
    /\ ap_code = None
    /\ ap_result = None
    /\ ap_pc = "start"

\* _extract_function_source(source, name): the function's own text.
Extract ==
    /\ ap_pc = "start"
    /\ ap_code' = ExtractFunctionSource(ap_source, ap_target)
    /\ ap_pc' = "extracted"
    /\ UNCHANGED << ap_source, ap_target, ap_result >>
    /\ UNCHANGED notApplier

\* apply_function_patch(source, name, that text).
Apply ==
    /\ ap_pc = "extracted"
    /\ ~IsNone(ap_code)
    /\ ap_result' = ApplyFunctionPatchText(ap_source, ap_target, ap_code[1])
    /\ ap_pc' = "applied"
    /\ UNCHANGED << ap_source, ap_target, ap_code >>
    /\ UNCHANGED notApplier

NextApplier == Extract \/ Apply

SpecApplier == InitApplier /\ [][NextApplier]_vars

\* str.rstrip("\n"): the text without its trailing newlines.
RECURSIVE RStripNewlines(_)
RStripNewlines(text) ==
    IF Len(text.lines) > 0 /\ Last(text.lines) = Line(0, "", 0)
    THEN RStripNewlines(Text(Front(text.lines), FALSE))
    ELSE Text(text.lines, FALSE)

\* C16 (as claimed): replacing a function by its own text, decorators
\* included, returns the source byte for byte, up to a trailing newline.
C16_ApplierRoundTrip ==
    ap_pc = "applied" =>
        /\ ~IsNone(ap_result)
        /\ RStripNewlines(ap_result[1]) = RStripNewlines(ap_source)

\* ===================================================== scan route and worker
MaxFiles == 2

\* Contents a request can carry; the third is larger than the byte cap.
ScanHot   == Src(F1({"dangerous_eval"}), {}, FALSE)
ScanClean == Src(F1({}), {}, FALSE)
ScanLarge == Src(F1({"blocking_io_in_async"}), {}, FALSE)
ScanContents == {ScanHot, ScanClean, ScanLarge}

\* len(content.encode("utf-8")), in units of settings.max_file_size_bytes.
EncodedSize(content) == IF content = ScanLarge THEN 2 ELSE 1

FileInput(path, content) == [path |-> path, content |-> content]

FileLists(n) ==
    UNION { [1..k -> {FileInput("a.py", c) : c \in ScanContents}] : k \in 0..n }

\* ScanRequest: the files and the legacy 'combined' string.
ScanRequests ==
    { [files |-> fs, combined |-> None] : fs \in FileLists(MaxFiles) }
    \cup { [files |-> << >>, combined |-> Some(ScanHot)] }

\* parse_file(content, path): the ModuleAST of the content, tagged with its path.
ParseFile(content, path) ==
    [file_path |-> path, fns |-> content.fns, raises |-> content.raises,
     empty |-> content.empty]

\* FileCache keys: f"{file_path}:{sha256(content)}".
CacheKey(path, content) == << path, content >>
CacheKeys == {"a.py", "unknown"} \X ScanContents

\* FileCache.get: the cache after the lookup and the entry found (None when
\* absent or expired; an expired entry is deleted).
CacheGet(cache, path, content) ==
    LET key == CacheKey(path, content)
    IN IF IsNone(cache[key]) THEN [cache |-> cache, entry |-> None]
       ELSE IF cache[key][1].expired
            THEN [cache |-> [cache EXCEPT ![key] = None], entry |-> None]
            ELSE [cache |-> cache, entry |-> cache[key]]

\* FileCache.put.
CachePut(cache, path, content, module_ast) ==
    [cache EXCEPT ![CacheKey(path, content)] =
        Some([module_ast |-> module_ast, expired |-> FALSE])]

\* Step 1 of run_scan: modules[f.path] from the cache or from the parser; the
\* dict keeps its keys in order of first insertion.
RECURSIVE ScanParse(_, _, _)
ScanParse(st, files, i) ==
    IF i > Len(files) THEN st
    ELSE LET f   == files[i]
             got == CacheGet(st.cache, f.path, f.content)
             ast == IF IsNone(got.entry) THEN ParseFile(f.content, f.path)
                    ELSE got.entry[1].module_ast
             ps  == IF f.path \in Range(st.paths) THEN st.paths
                    ELSE Append(st.paths, f.path)
             ms  == [q \in Range(ps) |-> IF q = f.path THEN ast ELSE st.modules[q]]
         IN ScanParse([cache |-> got.cache, paths |-> ps, modules |-> ms],
                      files, i + 1)

\* Step 9 of run_scan: every file is stored with modules[f.path].
RECURSIVE ScanStore(_, _, _, _)
ScanStore(cache, files, modules, i) ==
    IF i > Len(files) THEN cache
    ELSE ScanStore(CachePut(cache, files[i].path, files[i].content,
                            modules[files[i].path]),
                   files, modules, i + 1)

\* generate_fallback_issues.
GenerateFallbackIssues(viols) ==
    [i \in 1..Len(viols) |->
        [id |-> << viols[i].rule_id, i >>, severity |-> viols[i].severity,
         file |-> viols[i].file, rule_id |-> viols[i].rule_id,
         issue |-> viols[i].title]]

\* ScanWorker.run_scan without a gateway and without the test harness: the
\* cache afterwards and the response.
RunScan(cache, files, scan_id) ==
    LET parsed == ScanParse([cache |-> cache, paths |-> << >>,
                             modules |-> << >>], files, 1)
        rr     == RuleEngineRun(RULE_REGISTRY, parsed.paths, parsed.modules)
        score  == ComputeRiskScore(rr.violations, 0, {})
        rb     == RiskBreakdown(rr.violations, 0, {}, score)
        report == [issues |-> GenerateFallbackIssues(rr.violations),
                   riskScore |-> score,
                   risk_breakdown |-> rb,
                   summary |-> << score, Len(rr.violations) >>,
                   llm_used |-> FALSE,
                   deterministic_only |-> TRUE,
                   audit |-> [scan_id |-> scan_id,
                              files_scanned |-> Len(files),
                              violations_found |-> Len(rr.violations),
                              risk_score |-> score,
                              llm_invoked |-> FALSE,
                              deterministic_only |-> TRUE]]
    IN [cache |-> ScanStore(parsed.cache, files, parsed.modules, 1),
        response |-> [message |-> "scan_complete", scan_id |-> scan_id,
                      report |-> Some(report)]]

\* The files the route works on: request.files, or the legacy combined string.
RequestFiles(request) ==
    IF Len(request.files) = 0 /\ ~IsNone(request.combined)
    THEN << FileInput("unknown", request.combined[1]) >>
    ELSE request.files

\* The size filter of the route.
SizeFilter(files, settings) ==
    SelectSeq(files, LAMBDA f : EncodedSize(f.content) <= settings.max_file_size_bytes)

ScanIds == {"s1", "s2"}

\* The report without the fields that differ from run to run by design
\* (scan_id; duration_ms is not modelled).
ReportBody(report) == [report EXCEPT !.audit.scan_id = ""]

\* The bookkeeping of one run_scan call.
Ran(files, out) ==
    /\ sw_last' = [ran |-> TRUE, files |-> files, report |-> out.report]
    /\ sw_first' = IF files = sw_probe /\ IsNone(sw_first)
                   THEN Some(ReportBody(out.report[1])) ELSE sw_first

InitScan ==
    /\ PipelineIdle
    /\ IdleButScan
    /\ sw_settings \in [background_file_threshold : {1, 10},
                        max_file_size_bytes : {1}]
    /\ sw_cache = [k \in CacheKeys |-> None]
    /\ sw_pending = << >>
    /\ sw_background = << >>
    /\ sw_response = NoScanResponse
    /\ sw_last = NoRun
    /\ sw_probe \in { << FileInput("a.py", ScanHot) >>,
                      << FileInput("a.py", ScanClean) >> }
    /\ sw_first = None

\* POST /scan with no files and no combined string.
ScanError ==
    /\ \E request \in ScanRequests :
          /\ Len(RequestFiles(request)) = 0
          /\ sw_response' = ScanExchange(0, 0, "error", "", None, FALSE)
    /\ UNCHANGED << sw_settings, sw_cache, sw_pending, sw_background,
                    sw_last, sw_probe, sw_first >>
    /\ UNCHANGED notScan

\* POST /scan, inline branch.
ScanInline ==
    /\ \E request \in ScanRequests, scan_id \in ScanIds :
          LET files == SizeFilter(RequestFiles(request), sw_settings)
          IN /\ Len(RequestFiles(request)) > 0
             /\ Len(files) <= sw_settings.background_file_threshold
             /\ \E out \in {RunScan(sw_cache, files, scan_id)} :
                   /\ sw_cache' = out.cache
                   /\ sw_response' =
                         ScanExchange(Len(RequestFiles(request)), Len(files),
                                      out.response.message, out.response.scan_id,
                                      out.response.report, TRUE)
                   /\ Ran(files, out.response)
    /\ UNCHANGED << sw_settings, sw_pending, sw_background, sw_probe >>
    /\ UNCHANGED notScan

\* POST /scan, background branch: the task is created and the route returns.
ScanQueued ==
    /\ Len(sw_pending) = 0
    /\ \E request \in ScanRequests :
          LET files == SizeFilter(RequestFiles(request), sw_settings)
          IN /\ Len(RequestFiles(request)) > 0
             /\ Len(files) > sw_settings.background_file_threshold
             /\ sw_pending' = << files >>
             /\ sw_background' = [status |-> "running", result |-> None]
             /\ sw_response' =
                   ScanExchange(Len(RequestFiles(request)), Len(files),
                                "scan_queued", "bg", None, FALSE)
    /\ UNCHANGED << sw_settings, sw_cache, sw_last, sw_probe, sw_first >>
    /\ UNCHANGED notScan

\* _run_background: the queued task runs the scan.
BackgroundScan ==
    /\ Len(sw_pending) > 0
    /\ \E scan_id \in ScanIds :
          \E out \in {RunScan(sw_cache, Head(sw_pending), scan_id)} :
             /\ sw_cache' = out.cache
             /\ sw_background' = [status |-> "complete",
                                  result |-> Some([out.response EXCEPT !.scan_id = "bg"])]
             /\ Ran(Head(sw_pending), out.response)
    /\ sw_pending' = Tail(sw_pending)
    /\ UNCHANGED << sw_settings, sw_response, sw_probe >>
    /\ UNCHANGED notScan

\* The cache TTL elapses: every stored entry is expired from now on.
TimePasses ==
    /\ \E k \in CacheKeys : ~IsNone(sw_cache[k]) /\ ~sw_cache[k][1].expired
    /\ sw_cache' = [k \in CacheKeys |->
                      IF IsNone(sw_cache[k]) THEN None
                      ELSE Some([sw_cache[k][1] EXCEPT !.expired = TRUE])]
    /\ UNCHANGED << sw_settings, sw_pending, sw_background, sw_response,
                    sw_last, sw_probe, sw_first >>
    /\ UNCHANGED notScan

NextScan ==
    \/ ScanError
    \/ ScanInline
    \/ ScanQueued
    \/ BackgroundScan
    \/ TimePasses

SpecScan == InitScan /\ [][NextScan]_vars

\* C17: every run of run_scan on the same files, without a completion
\* service, returns the report of the first run on these files, apart from
\* scan_id and duration_ms, whether or not the run is served from the cache.
C17_ScanDeterministic ==
    (sw_last.ran /\ sw_last.files = sw_probe /\ ~IsNone(sw_first))
        => ReportBody(sw_last.report[1]) = sw_first[1]

\* C18: a request that carries files, all of them above the byte cap, gets
\* an error-shaped response (message "error", no report) and no scan runs.
C18_AllOversizedIsError ==
    (sw_response.received > 0 /\ sw_response.kept = 0)
        => (   sw_response.message = "error"
            /\ IsNone(sw_response.report)
            /\ ~sw_response.scanned )

\* ================================== parser and the race_condition rule
\* A module text: one module-level assignment  shared_data = <value>  and two
\* functions in source order. Each function is async or not, declares
\* 'global shared_data' or not, and touches the name in one way:
\*   "none"   not at all             "call"    shared_data.append(item)
\*   "assign" shared_data = [item]   "aug"     shared_data += [item]
Touches    == {"none", "call", "assign", "aug"}
ValueTypes == {"list", "dict", "set", "int"}

RaceFunctions ==
    [name : {"f"}, is_async : BOOLEAN, declares_global : BOOLEAN, touch : Touches]

RaceSources ==
    { [value_type |-> t,
       functions  |-> << f, [g EXCEPT !.name = "g"] >>] :
         t \in ValueTypes, f \in RaceFunctions, g \in RaceFunctions }

\* visit_Assign: the target type inferred from the assigned value.
TargetType(value_type) ==
    IF value_type \in {"list", "dict", "set"} THEN Some(value_type) ELSE None

VariableMutation(name, scope, target_type, is_augmented) ==
    [name |-> name, scope |-> scope, target_type |-> target_type,
     is_augmented |-> is_augmented]

\* _parse_function: the FunctionDef is built without reads_globals and
\* writes_globals, which keep their default, the empty list.
ParseFunction(fn) ==
    [name |-> fn.name, qualified_name |-> fn.name, is_async |-> fn.is_async,
     reads_globals |-> << >>, writes_globals |-> << >>]

\* The mutations the visitor records inside one function: _scope_stack is
\* never pushed, so an assignment or augmented assignment in a function is
\* recorded with scope "module".
FunctionMutations(fn) ==
    IF fn.touch = "assign"
    THEN << VariableMutation("shared_data", "module", Some("list"), FALSE) >>
    ELSE IF fn.touch = "aug"
    THEN << VariableMutation("shared_data", "module", None, TRUE) >>
    ELSE << >>

\* parse_python on a text that parses.
ParsePython(source) ==
    [functions |-> [i \in 1..Len(source.functions) |->
                        ParseFunction(source.functions[i])],
     variable_mutations |->
        << VariableMutation("shared_data", "module",
                            TargetType(source.value_type), FALSE) >>
        \o FunctionMutations(source.functions[1])
        \o FunctionMutations(source.functions[2])]

\* race_condition.check: the variables of mutable_vars, the async writers of
\* each, and one critical violation per variable with more than one writer.
MutableVars(module_ast) ==
    { vm.name : vm \in
        { m \in Range(module_ast.variable_mutations) :
            m.scope = "module" /\ m.target_type \in {Some("list"), Some("dict"), Some("set")} } }

AsyncWriters(module_ast, var_name) ==
    LET w == SelectSeq(module_ast.functions,
                 LAMBDA fn : fn.is_async /\ var_name \in Range(fn.writes_globals))
    IN [i \in 1..Len(w) |-> w[i].qualified_name]

RaceCheck(module_ast) ==
    LET hit == SelectSeq(<< "shared_data" >>,
                   LAMBDA v : v \in MutableVars(module_ast)
                              /\ Len(AsyncWriters(module_ast, v)) > 1)
    IN [i \in 1..Len(hit) |->
          [rule_id |-> "race_condition", severity |-> "critical",
           variable |-> hit[i],
           evidence |-> AsyncWriters(module_ast, hit[i]),
           affected_function |-> AsyncWriters(module_ast, hit[i])[1]]]

InitRace ==
    /\ PipelineIdle
    /\ IdleButRace
    /\ rc_source \in RaceSources
    /\ rc_module_ast = None
    /\ rc_violations = None

Parse ==
    /\ IsNone(rc_module_ast)
    /\ rc_module_ast' = Some(ParsePython(rc_source))
    /\ UNCHANGED << rc_source, rc_violations >>
    /\ UNCHANGED notRace

CheckRace ==
    /\ ~IsNone(rc_module_ast)
    /\ IsNone(rc_violations)
    /\ rc_violations' = Some(RaceCheck(rc_module_ast[1]))
    /\ UNCHANGED << rc_source, rc_module_ast >>
    /\ UNCHANGED notRace

NextRace ==
    \/ Parse
    \/ CheckRace

SpecRace == InitRace /\ [][NextRace]_vars

\* The case of the claim: a module-level container and two async functions
\* that each declare it global and mutate it.
TwoAsyncGlobalWriters(source) ==
    /\ source.value_type \in {"list", "dict", "set"}
    /\ \A i \in 1..2 : /\ source.functions[i].is_async
                       /\ source.functions[i].declares_global
                       /\ source.functions[i].touch # "none"

\* C19: for a module-level container and two async functions that declare it
\* global and mutate it, both functions carry the name in writes_globals and
\* the race_condition rule returns exactly one critical violation whose
\* evidence names both writers.
C19_RaceDetected ==
    (TwoAsyncGlobalWriters(rc_source) /\ ~IsNone(rc_violations))
        => /\ \A i \in 1..2 :
                "shared_data" \in Range(rc_module_ast[1].functions[i].writes_globals)
           /\ Len(rc_violations[1]) = 1
           /\ rc_violations[1][1].severity = "critical"
           /\ Range(rc_violations[1][1].evidence) = {"f", "g"}

\* ============================================= call graph: blast radius
\* Node ids, in the order their edges appear in CallGraph.edges.
GraphNodes == << "a", "b", "c" >>

\* A CallGraph over these nodes with any set of caller -> callee edges.
CallGraphs ==
    { [nodes |-> Range(GraphNodes), edges |-> es] :
        es \in SUBSET (Range(GraphNodes) \X Range(GraphNodes)) }

\* CallGraph.get_neighbors: the callees of a node, in edge order.
GetNeighbors(graph, node_id) ==
    SelectSeq(GraphNodes, LAMBDA t : << node_id, t >> \in graph.edges)

\* The for loop of get_blast_radius over the queue from position i: nodes
\* already visited are skipped, the others are marked and their callees
\* appended to next_queue.
RECURSIVE ScanQueue(_, _, _, _, _)
ScanQueue(graph, queue, i, visited, next_queue) ==
    IF i > Len(queue) THEN [visited |-> visited, next_queue |-> next_queue]
    ELSE IF queue[i] \in visited
         THEN ScanQueue(graph, queue, i + 1, visited, next_queue)
         ELSE ScanQueue(graph, queue, i + 1, visited \cup {queue[i]},
                        next_queue \o GetNeighbors(graph, queue[i]))

InitGraph ==
    /\ PipelineIdle
    /\ IdleButGraph
    /\ cg_graph \in CallGraphs
    /\ cg_start \in Range(GraphNodes)
    /\ cg_visited = {}
    /\ cg_queue = << >>
    /\ cg_depth = 0
    /\ cg_pc = "idle"
    /\ cg_result = None

\* get_blast_radius(node_id) is called: visited, queue and depth are set up.
BlastRadiusCall ==
    /\ cg_pc = "idle"
    /\ cg_visited' = {}
    /\ cg_queue' = << cg_start >>
    /\ cg_depth' = 0
    /\ cg_pc' = "while"
    /\ UNCHANGED << cg_graph, cg_start, cg_result >>
    /\ UNCHANGED notGraph

\* One iteration of 'while queue': the queue is scanned, replaced by
\* next_queue, and depth grows when next_queue is not empty.
BlastRadiusLevel ==
    /\ cg_pc = "while"
    /\ Len(cg_queue) > 0
    /\ \E out \in {ScanQueue(cg_graph, cg_queue, 1, cg_visited, << >>)} :
          /\ cg_visited' = out.visited
          /\ cg_queue' = out.next_queue
          /\ cg_depth' = IF Len(out.next_queue) > 0 THEN cg_depth + 1 ELSE cg_depth
    /\ UNCHANGED << cg_graph, cg_start, cg_pc, cg_result >>
    /\ UNCHANGED notGraph

\* The queue is empty: return depth.
BlastRadiusReturn ==
    /\ cg_pc = "while"
    /\ Len(cg_queue) = 0
    /\ cg_result' = Some(cg_depth)
    /\ cg_pc' = "done"
    /\ UNCHANGED << cg_graph, cg_start, cg_visited, cg_queue, cg_depth >>
    /\ UNCHANGED notGraph

NextGraph ==
    \/ BlastRadiusCall
    \/ BlastRadiusLevel
    \/ BlastRadiusReturn

SpecGraph == InitGraph /\ [][NextGraph]_vars

\* The BFS depth of a node over outgoing edges: the largest shortest-path
\* distance from it to a node reachable from it.
RECURSIVE BfsLevels(_, _, _, _)
BfsLevels(graph, frontier, seen, d) ==
    LET next == { t \in graph.nodes :
                    \E n \in frontier : << n, t >> \in graph.edges } \ seen
    IN IF next = {} THEN d
       ELSE BfsLevels(graph, next, seen \cup next, d + 1)

BfsDepth(graph, n) == BfsLevels(graph, {n}, {n}, 0)

\* C20: get_blast_radius(n) returns the BFS depth of n over outgoing edges,
\* cyclic graph or not; reaching a visited node again adds no level.
C20_BlastRadiusIsBfsDepth ==
    cg_pc = "done" => cg_result[1] = BfsDepth(cg_graph, cg_start)

\* ================================================ call graph: construction
\* A ModuleAST as build_call_graph reads it: top-level functions with their
\* calls (a call name is its dotted parts) and the import statements. The
\* modules here have no classes.
BuildFunc(name, calls) == [name |-> name, is_async |-> FALSE, calls |-> calls]
FromImport(module, names) ==
    [is_from_import |-> TRUE, module |-> module, names |-> names]
PlainImport(module) ==
    [is_from_import |-> FALSE, module |-> module, names |-> << >>]

BuildCalls == { << >>, << << "g" >> >>, << << "b", "g" >> >> }

\* Zero or one function of the given name, with any of the calls.
BuildFuncs(name) ==
    { << >> } \cup { << BuildFunc(name, c) >> : c \in BuildCalls }

BuildModules ==
    { [p \in {"a.py", "b.py"} |->
         IF p = "a.py" THEN [functions |-> fa \o ga, imports |-> ia]
         ELSE [functions |-> gb, imports |-> ib]] :
        fa \in BuildFuncs("f"), ga \in BuildFuncs("g"), gb \in BuildFuncs("g"),
        ia \in { << >>, << FromImport("b", << "g" >>) >>, << PlainImport("b") >> },
        ib \in { << >>, << FromImport("a", << "f" >>) >> } }

\* _make_node_id: f"{module}::{function}".
MakeNodeId(module, function) == << module, function >>

\* _module_matches: the module name occurs in the path with '/' replaced by
\* '.' and '.py' removed.
ModuleMatches(module_name, file_path) ==
    \/ module_name = "a" /\ file_path = "a.py"
    \/ module_name = "b" /\ file_path = "b.py"

\* Phase 1 for the modules from position i: one node per top-level function,
\* and name_to_nodes from short name to node ids in insertion order.
RECURSIVE BuildNodes(_, _, _)
BuildNodes(modules, acc, i) ==
    IF i > Len(Paths) THEN acc
    ELSE LET path == Paths[i]
             fs   == modules[path].functions
             ids  == [k \in 1..Len(fs) |-> MakeNodeId(path, fs[k].name)]
             nm   == [n \in Range(FuncOrder) |->
                        acc.names[n] \o SelectSeq(ids, LAMBDA id : id[2] = n)]
         IN BuildNodes(modules,
                       [nodes |-> acc.nodes \cup Range(ids), names |-> nm], i + 1)

\* The import alias map of one module.
ImportMap(module_ast) ==
    LET imps == Range(module_ast.imports)
        keys == UNION { IF imp.is_from_import THEN Range(imp.names) ELSE {imp.module} :
                        imp \in imps }
    IN [k \in keys |->
          (CHOOSE imp \in imps :
              IF imp.is_from_import THEN k \in Range(imp.names) ELSE k = imp.module).module]

\* _resolve_callee.
ResolveCallee(call_name, current_module, names, import_map, modules) ==
    IF Len(call_name) = 1 /\ Len(names[call_name[1]]) > 0
    THEN LET all  == names[call_name[1]]
             same == SelectSeq(all, LAMBDA id : id[1] = current_module)
         IN IF Len(same) > 0 THEN same ELSE << Head(all) >>
    ELSE IF Len(call_name) > 1 /\ call_name[1] \in DOMAIN import_map
    THEN LET hit == SelectSeq(Paths,
                        LAMBDA p : ModuleMatches(import_map[call_name[1]], p))
         IN IF Len(hit) > 0
            THEN << MakeNodeId(Head(hit), call_name[Len(call_name)]) >>
            ELSE << >>
    ELSE << >>

Edge(source, target, call_type) ==
    [source |-> source, target |-> target, call_type |-> call_type]

\* Phase 2: the direct edges of one function, in call order.
RECURSIVE CallEdgesOf(_, _, _, _, _, _)
CallEdgesOf(modules, nodes, names, path, func, k) ==
    IF k > Len(func.calls) THEN << >>
    ELSE LET callees == ResolveCallee(func.calls[k], path, names,
                                      ImportMap(modules[path]), modules)
             kept    == SelectSeq(callees, LAMBDA id : id \in nodes)
         IN [j \in 1..Len(kept) |->
                Edge(MakeNodeId(path, func.name), kept[j], "direct")]
            \o CallEdgesOf(modules, nodes, names, path, func, k + 1)

RECURSIVE FuncEdges(_, _, _, _, _)
FuncEdges(modules, nodes, names, path, k) ==
    IF k > Len(modules[path].functions) THEN << >>
    ELSE (IF MakeNodeId(path, modules[path].functions[k].name) \in nodes
          THEN CallEdgesOf(modules, nodes, names, path,
                           modules[path].functions[k], 1)
          ELSE << >>)
         \o FuncEdges(modules, nodes, names, path, k + 1)

\* Phase 3: the import edges of one from-import, over the other modules.
ImportEdgesOf(nodes, path, imp) ==
    LET targets == SelectSeq(Paths,
                       LAMBDA t : t # path /\ ModuleMatches(imp.module, t))
        names   == SelectSeq(imp.names,
                       LAMBDA n : \E t \in Range(targets) : MakeNodeId(t, n) \in nodes)
    IN IF Len(targets) = 0 THEN << >>
       ELSE [j \in 1..Len(names) |->
               Edge(IF MakeNodeId(path, names[j]) \in nodes
                    THEN MakeNodeId(path, names[j])
                    ELSE MakeNodeId(path, "__module__"),
                    MakeNodeId(Head(targets), names[j]), "import")]

RECURSIVE ImportEdges(_, _, _, _)
ImportEdges(modules, nodes, path, k) ==
    IF k > Len(modules[path].imports) THEN << >>
    ELSE (IF modules[path].imports[k].is_from_import
          THEN ImportEdgesOf(nodes, path, modules[path].imports[k])
          ELSE << >>)
         \o ImportEdges(modules, nodes, path, k + 1)

InitBuild ==
    /\ PipelineIdle
    /\ IdleButBuild
    /\ bg_modules \in BuildModules
    /\ bg_names = << >>
    /\ bg_graph = [nodes |-> {}, edges |-> << >>]
    /\ bg_pc = "nodes"

\* Phase 1 of build_call_graph.
CreateNodes ==
    /\ bg_pc = "nodes"
    /\ \E out \in {BuildNodes(bg_modules,
                      [nodes |-> {}, names |-> [n \in Range(FuncOrder) |-> << >>]], 1)} :
          /\ bg_graph' = [bg_graph EXCEPT !.nodes = out.nodes]
          /\ bg_names' = out.names
    /\ bg_pc' = "edges"
    /\ UNCHANGED bg_modules
    /\ UNCHANGED notBuild

\* Phase 2 of build_call_graph.
CreateEdges ==
    /\ bg_pc = "edges"
    /\ bg_graph' = [bg_graph EXCEPT !.edges =
           @ \o FuncEdges(bg_modules, bg_graph.nodes, bg_names, Paths[1], 1)
             \o FuncEdges(bg_modules, bg_graph.nodes, bg_names, Paths[2], 1)]
    /\ bg_pc' = "imports"
    /\ UNCHANGED << bg_modules, bg_names >>
    /\ UNCHANGED notBuild

\* Phase 3 of build_call_graph and the return.
CreateImportEdges ==
    /\ bg_pc = "imports"
    /\ bg_graph' = [bg_graph EXCEPT !.edges =
           @ \o ImportEdges(bg_modules, bg_graph.nodes, Paths[1], 1)
             \o ImportEdges(bg_modules, bg_graph.nodes, Paths[2], 1)]
    /\ bg_pc' = "done"
    /\ UNCHANGED << bg_modules, bg_names >>
    /\ UNCHANGED notBuild

NextBuild ==
    \/ CreateNodes
    \/ CreateEdges
    \/ CreateImportEdges

SpecBuild == InitBuild /\ [][NextBuild]_vars

\* C21: in the graph build_call_graph returns, the source and the target of
\* every edge, direct or import, are keys of nodes.
C21_EdgeEndpointsAreNodes ==
    bg_pc = "done" =>
        \A e \in Range(bg_graph.edges) :
            e.source \in bg_graph.nodes /\ e.target \in bg_graph.nodes

\* ============================================ call graph: affected subgraph
MaxHops == 2

\* CallGraph.get_callers, as a set.
GetCallers(graph, node_id) == { s \in graph.nodes : << s, node_id >> \in graph.edges }

\* CallGraph.get_subgraph.
GetSubgraph(graph, node_ids) ==
    [nodes |-> graph.nodes \cap node_ids,
     edges |-> { e \in graph.edges : e[1] \in node_ids /\ e[2] \in node_ids }]

InitSub ==
    /\ PipelineIdle
    /\ IdleButSub
    /\ sg_graph \in CallGraphs
    /\ sg_seeds \in { {"a"}, {"b"}, {"a", "c"} }
    /\ sg_hops \in 0..MaxHops
    /\ sg_expanded = {}
    /\ sg_frontier = {}
    /\ sg_round = 0
    /\ sg_pc = "idle"
    /\ sg_result = None

\* get_affected_subgraph is called: expanded and frontier start as the seeds.
SubgraphCall ==
    /\ sg_pc = "idle"
    /\ sg_expanded' = sg_seeds
    /\ sg_frontier' = sg_seeds
    /\ sg_round' = 0
    /\ sg_pc' = "for"
    /\ UNCHANGED << sg_graph, sg_seeds, sg_hops, sg_result >>
    /\ UNCHANGED notSub

\* One round of 'for _ in range(hops)': expanded takes the callees and the
\* callers of the frontier, then frontier = next_frontier - expanded.
SubgraphRound ==
    /\ sg_pc = "for"
    /\ sg_round < sg_hops
    /\ LET next_frontier ==
             UNION { Range(GetNeighbors(sg_graph, n)) \cup GetCallers(sg_graph, n) :
                     n \in sg_frontier }
           expanded == sg_expanded \cup next_frontier
       IN /\ sg_expanded' = expanded
          /\ sg_frontier' = next_frontier \ expanded
    /\ sg_round' = sg_round + 1
    /\ UNCHANGED << sg_graph, sg_seeds, sg_hops, sg_pc, sg_result >>
    /\ UNCHANGED notSub

\* After the last round: return self.get_subgraph(expanded).
SubgraphReturn ==
    /\ sg_pc = "for"
    /\ sg_round = sg_hops
    /\ sg_result' = Some(GetSubgraph(sg_graph, sg_expanded))
    /\ sg_pc' = "done"
    /\ UNCHANGED << sg_graph, sg_seeds, sg_hops, sg_expanded, sg_frontier, sg_round >>
    /\ UNCHANGED notSub

NextSub ==
    \/ SubgraphCall
    \/ SubgraphRound
    \/ SubgraphReturn

SpecSub == InitSub /\ [][NextSub]_vars

\* The nodes within h edges of a seed, edges followed in either direction.
RECURSIVE WithinHops(_, _, _)
WithinHops(graph, seeds, h) ==
    IF h = 0 THEN seeds
    ELSE LET near == WithinHops(graph, seeds, h - 1)
         IN near \cup { t \in graph.nodes :
                          \E n \in near : << n, t >> \in graph.edges
                                          \/ << t, n >> \in graph.edges }

\* C22: get_affected_subgraph(seeds, hops) returns the subgraph induced by
\* exactly the nodes within hops edges of a seed, callers and callees alike.
C22_SubgraphWithinHops ==
    sg_pc = "done" =>
        sg_result[1] = GetSubgraph(sg_graph, WithinHops(sg_graph, sg_seeds, sg_hops))

\* ------------------------------------------------------------------- C23
\* C23: with the self-review enabled and a completion service configured, a
\* candidate reaches the rescan only after the review of the same attempt was
\* asked and did not answer safe=false; a safe=false answer leads to the
\* next attempt without a rescan.
C23_RescanOnlyAfterReview ==
    (cfg.review_enabled /\ cfg.has_gateway /\ pc \in {"attempt", "loop"})
        => /\ last.rescanned => (last.reviewed /\ last.review_ok)
           /\ (last.reviewed /\ ~last.review_ok)
                 => (~last.rescanned /\ last.outcome = "continue")

\* ============================================================ LLM gateway
MaxLlmRetries == 3

\* What one _sync_complete call can do: raise, or return a response. A
\* response has a list of choices (here none or one) whose content is JSON
\* text, JSON inside a markdown fence, or other text, and a token count.
LlmContents  == {"json", "fenced", "text"}
LlmResponses ==
    [choices : {<< >>} \cup {<< c >> : c \in LlmContents}, total_tokens : {0, 5}]
LlmCalls ==
    {[raised |-> TRUE, response |-> None]}
    \cup {[raised |-> FALSE, response |-> Some(r)] : r \in LlmResponses}

\* json.loads(content), and _extract_json on its failure.
ParseContent(content) ==
    IF content \in {"json", "fenced"} THEN Some("parsed") ELSE None

\* The try body after the call has returned: an IndexError on an empty
\* choices list is an exception like any other.
Processed(call) ==
    IF call.raised \/ Len(call.response[1].choices) = 0
    THEN [raised |-> TRUE, tokens |-> 0, result |-> None]
    ELSE LET content == call.response[1].choices[1]
             tokens  == call.response[1].total_tokens
             parsed  == ParseContent(content)
         IN [raised |-> FALSE, tokens |-> tokens,
             result |-> Some([content |-> content, parsed |-> parsed,
                              tokens_used |-> tokens,
                              success |-> ~IsNone(parsed)])]

\* The backoff before the next attempt: 2**attempt seconds.
BackoffFixed(a) == 1
Backoff(a) == 2 ^ a

\* 'attempt < self.max_retries - 1': a sleep and another attempt follow.
MoreLlmAttempts(a) == a < gw_max_retries - 1

ExhaustedResult ==
    [content |-> "", parsed |-> None, tokens_used |-> 0, success |-> FALSE]

InitGateway ==
    /\ PipelineIdle
    /\ IdleButGateway
    /\ gw_max_retries \in 0..MaxLlmRetries
    /\ gw_tokens \in {0, 7}
    /\ gw_attempt = 0
    /\ gw_outcomes = << >>
    /\ gw_sleeps = << >>
    /\ gw_pc = "for"
    /\ gw_result = None

\* One attempt whose try body completes: the result is returned.
CallCompletes ==
    /\ gw_pc = "for"
    /\ gw_attempt < gw_max_retries
    /\ \E call \in LlmCalls :
          /\ ~Processed(call).raised
          /\ gw_outcomes' = Append(gw_outcomes, call)
          /\ gw_tokens' = gw_tokens + Processed(call).tokens
          /\ gw_result' = Processed(call).result
    /\ gw_pc' = "done"
    /\ UNCHANGED << gw_max_retries, gw_attempt, gw_sleeps >>
    /\ UNCHANGED notGateway

\* One attempt whose try body raises: the except branch, with the backoff
\* when another attempt follows.
CallFails ==
    /\ gw_pc = "for"
    /\ gw_attempt < gw_max_retries
    /\ \E call \in LlmCalls :
          /\ Processed(call).raised
          /\ gw_outcomes' = Append(gw_outcomes, call)
    /\ IF MoreLlmAttempts(gw_attempt)
       THEN /\ gw_sleeps' = Append(gw_sleeps, Backoff(gw_attempt))
            /\ gw_pc' = "sleep"
            /\ UNCHANGED gw_attempt
       ELSE /\ gw_attempt' = gw_attempt + 1
            /\ UNCHANGED << gw_sleeps, gw_pc >>
    /\ UNCHANGED << gw_max_retries, gw_tokens, gw_result >>
    /\ UNCHANGED notGateway

\* asyncio.sleep returns and the loop goes to the next attempt.
Wake ==
    /\ gw_pc = "sleep"
    /\ gw_attempt' = gw_attempt + 1
    /\ gw_pc' = "for"
    /\ UNCHANGED << gw_max_retries, gw_tokens, gw_outcomes, gw_sleeps, gw_result >>
    /\ UNCHANGED notGateway

\* The loop is over without a return: the failure dict.
Exhausted ==
    /\ gw_pc = "for"
    /\ gw_attempt >= gw_max_retries
    /\ gw_result' = Some(ExhaustedResult)
    /\ gw_pc' = "done"
    /\ UNCHANGED << gw_max_retries, gw_tokens, gw_attempt, gw_outcomes, gw_sleeps >>
    /\ UNCHANGED notGateway

NextGateway ==
    \/ CallCompletes
    \/ CallFails
    \/ Wake
    \/ Exhausted

SpecGateway == InitGateway /\ [][NextGateway]_vars

\* The calls made so far that ended in the except branch.
FailedCalls == SelectSeq(gw_outcomes, LAMBDA call : Processed(call).raised)

\* At most max_retries calls; the k-th failed call that is not the last one
\* allowed is followed by a wait of 2^(k-1) seconds; exhaustion returns
\* success = false.
RetryDiscipline ==
    /\ Len(gw_outcomes) <= gw_max_retries
    /\ gw_sleeps = [k \in 1..Min(Len(FailedCalls), Max(gw_max_retries - 1, 0)) |->
                       2 ^ (k - 1)]
    /\ (gw_pc = "done" /\ Len(FailedCalls) = Len(gw_outcomes))
          => (Len(gw_outcomes) = gw_max_retries /\ ~gw_result[1].success)

\* C24 as stated: retry discipline, and complete stops at the first call
\* that returns.
C24_StopsAtFirstReturn ==
    /\ RetryDiscipline
    /\ \A i \in 1..Len(gw_outcomes) :
          ~gw_outcomes[i].raised => (i = Len(gw_outcomes) /\ gw_pc = "done")

\* C24 amended: retry discipline, and complete stops at the first call that
\* returns a response with a choice; a call that raises or returns a response
\* without choices counts as failed.
C24_StopsAtFirstUsableReturn ==
    /\ RetryDiscipline
    /\ \A i \in 1..Len(gw_outcomes) :
          ~Processed(gw_outcomes[i]).raised
             => (i = Len(gw_outcomes) /\ gw_pc = "done" /\ ~IsNone(gw_result))

\* Two failed calls, one of them a response without choices, the waits 1s
\* and 2s, then a call that returns JSON.
C24_Witness ==
    /\ gw_pc = "done"
    /\ Len(gw_outcomes) = 3
    /\ ~gw_outcomes[1].raised
    /\ gw_outcomes[2].raised
    /\ gw_sleeps = << 1, 2 >>
    /\ gw_result[1].success

\* ============================================================== file cache
MaxTime  == 3
CacheTtl == 1

\* Paths, one of them beginning with the other followed by a colon, and the
\* contents stored under them.
FcPaths    == {"C", "C:x.py"}
FcContents == {"c1", "c2"}
FcAsts     == {"m1", "m2"}

\* FileCache.hash_content: SHA-256 of the content, as a hex string.
HashContent(content) == IF content = "c1" THEN "9f2a" ELSE "41be"

\* The store key f"{file_path}:{content_hash}".
FcKey(file_path, content) == << file_path, HashContent(content) >>
FcKeys == { FcKey("C", "c1"), FcKey("C:x.py", "c1"), FcKey("C:x.py", "c2") }

\* key.startswith(f"{file_path}:")
KeyStartsWith(key, file_path) ==
    \/ key[1] = file_path
    \/ file_path = "C" /\ key[1] = "C:x.py"

\* CacheEntry.is_expired at time now.
IsExpiredNever(entry, now) == FALSE
IsExpired(entry, now) == (now - entry.timestamp) > CacheTtl

\* FileCache.get: the store afterwards and the value returned.
FileCacheGet(store, key, now) ==
    IF IsNone(store[key]) THEN [store |-> store, entry |-> None]
    ELSE IF IsExpired(store[key][1], now)
         THEN [store |-> [store EXCEPT ![key] = None], entry |-> None]
         ELSE [store |-> store, entry |-> store[key]]

\* FileCache.put: a new CacheEntry stamped with the current time.
FileCachePut(store, key, module_ast, now) ==
    [store EXCEPT ![key] = Some([content_hash |-> key[2], module_ast |-> module_ast,
                                 timestamp |-> now])]

\* FileCache.invalidate and FileCache.clear.
FileCacheInvalidate(store, file_path) ==
    [k \in FcKeys |-> IF KeyStartsWith(k, file_path) THEN None ELSE store[k]]
FileCacheClear(store) == [k \in FcKeys |-> None]

\* The record of one operation: its name, its key or path, the value it
\* returned, and the keys whose entry was older than the TTL and is gone.
CacheOp(op, arg, returned, after) ==
    [op |-> op, arg |-> arg, returned |-> returned,
     evicted |-> { k \in FcKeys :
                     /\ ~IsNone(fc_store[k])
                     /\ fc_now - fc_store[k][1].timestamp > CacheTtl
                     /\ IsNone(after[k]) }]

InitCache ==
    /\ PipelineIdle
    /\ IdleButCache
    /\ fc_store = [k \in FcKeys |-> None]
    /\ fc_now = 0
    /\ fc_live = [k \in FcKeys |-> None]
    /\ fc_last = [op |-> "none", arg |-> << >>, returned |-> None, evicted |-> {}]

PutEntry ==
    /\ \E key \in FcKeys, module_ast \in FcAsts :
          LET after == FileCachePut(fc_store, key, module_ast, fc_now)
          IN /\ fc_store' = after
             /\ fc_live' = [fc_live EXCEPT ![key] =
                               Some([module_ast |-> module_ast, at |-> fc_now])]
             /\ fc_last' = CacheOp("put", key, None, after)
    /\ UNCHANGED fc_now
    /\ UNCHANGED notCache

GetEntry ==
    /\ \E key \in FcKeys :
          LET out == FileCacheGet(fc_store, key, fc_now)
          IN /\ fc_store' = out.store
             /\ fc_last' = CacheOp("get", key, out.entry, out.store)
    /\ UNCHANGED << fc_now, fc_live >>
    /\ UNCHANGED notCache

InvalidatePath ==
    /\ \E file_path \in FcPaths :
          LET after == FileCacheInvalidate(fc_store, file_path)
          IN /\ fc_store' = after
             /\ fc_live' = [k \in FcKeys |->
                              IF k[1] = file_path THEN None ELSE fc_live[k]]
             /\ fc_last' = CacheOp("invalidate", << file_path >>, None, after)
    /\ UNCHANGED fc_now
    /\ UNCHANGED notCache

ClearAll ==
    /\ fc_store' = FileCacheClear(fc_store)
    /\ fc_live' = [k \in FcKeys |-> None]
    /\ fc_last' = CacheOp("clear", << >>, None, FileCacheClear(fc_store))
    /\ UNCHANGED fc_now
    /\ UNCHANGED notCache

\* Time advances by one unit.
Tick ==
    /\ fc_now < MaxTime
    /\ fc_now' = fc_now + 1
    /\ fc_last' = CacheOp("tick", << >>, None, fc_store)
    /\ UNCHANGED << fc_store, fc_live >>
    /\ UNCHANGED notCache

NextCache ==
    \/ PutEntry
    \/ GetEntry
    \/ InvalidatePath
    \/ ClearAll
    \/ Tick

SpecCache == InitCache /\ [][NextCache]_vars

\* The last put for the key, not invalidated or cleared since, is older
\* than the TTL.
LiveIsOld(key) == fc_now - fc_live[key][1].at > CacheTtl

\* C25: get returns an entry only if one was put for the same path and
\* content hash, not invalidated or cleared since and not older than the
\* TTL; a get that finds an entry older than the TTL removes it and returns
\* nothing; put and the passing of time remove no entry older than the TTL.
C25_CacheSound ==
    /\ (fc_last.op = "get" /\ ~IsNone(fc_last.returned))
          => /\ ~IsNone(fc_live[fc_last.arg])
             /\ ~LiveIsOld(fc_last.arg)
             /\ fc_last.returned[1].module_ast = fc_live[fc_last.arg][1].module_ast
             /\ fc_last.returned[1].content_hash = fc_last.arg[2]
    /\ (fc_last.op = "get" /\ ~IsNone(fc_live[fc_last.arg]) /\ LiveIsOld(fc_last.arg))
          => (IsNone(fc_last.returned) /\ IsNone(fc_store[fc_last.arg]))
    /\ fc_last.evicted # {}
          => \/ fc_last.op = "get" /\ fc_last.evicted = {fc_last.arg}
             \/ fc_last.op \in {"invalidate", "clear"}

\* A get that found an entry older than the TTL and removed it, while
\* another entry older than the TTL is still in the store.
C25_Witness ==
    /\ fc_last.op = "get"
    /\ fc_last.evicted = {fc_last.arg}
    /\ \E k \in FcKeys \ {fc_last.arg} :
          ~IsNone(fc_store[k]) /\ fc_now - fc_store[k][1].timestamp > CacheTtl

\* ====================================================== concurrent scans
\* Two run_scan coroutines on the one ScanWorker of get_scan_worker(), which
\* holds the one FileCache and the one LLMGateway. A coroutine runs without
\* interruption up to an await; the only await of a scan (test harness off)
\* is the call of gateway.complete.
MaxTokens == 2

Scans == {1, 2}
Other(i) == 3 - i

ConcurrentFiles ==
    UNION { [1..k -> {FileInput("a.py", c) : c \in {ScanHot, ScanClean}}]
            : k \in 1..2 }

\* What gateway.complete hands back: retries exhausted (no call returned, no
\* tokens counted), content that is not JSON, JSON the validator rejects, or
\* a validated response explaining the rules in 'rules'.
LlmReturns ==
    { [kind |-> "exhausted", tokens_used |-> 0, rules |-> {}] }
    \cup { [kind |-> k, tokens_used |-> t, rules |-> {}]
           : k \in {"unparsed", "rejected"}, t \in 1..MaxTokens }
    \cup { [kind |-> "accepted", tokens_used |-> t, rules |-> rs]
           : t \in 1..MaxTokens, rs \in SUBSET {"dangerous_eval"} }

NoLlm == [kind |-> "none", tokens_used |-> 0, rules |-> {}]

\* _merge_llm_with_violations: the issue of every violation, with the
\* explanation of the response where it has one for the rule.
MergeLlmWithViolations(viols, llm) ==
    [i \in 1..Len(viols) |->
        [id |-> << viols[i].rule_id, i >>, severity |-> viols[i].severity,
         file |-> viols[i].file, rule_id |-> viols[i].rule_id,
         issue |-> viols[i].title,
         explanation |-> IF viols[i].rule_id \in llm.rules THEN "llm" ELSE "rule"]]

\* Steps 1 to 7 of run_scan: parse through the cache, run the rules, score,
\* and decide on the LLM (settings.llm_risk_threshold is 30).
ScanAnalyse(cache, files) ==
    LET parsed == ScanParse([cache |-> cache, paths |-> << >>,
                             modules |-> << >>], files, 1)
        rr     == RuleEngineRun(RULE_REGISTRY, parsed.paths, parsed.modules)
        score  == ComputeRiskScore(rr.violations, 0, {})
    IN [cache |-> parsed.cache, modules |-> parsed.modules,
        violations |-> rr.violations, score |-> score,
        should_use_llm |->
            /\ (score > 30 \/ \E k \in 1..Len(rr.violations) :
                                  IsCriticalOrHigh(rr.violations[k]))
            /\ Len(rr.violations) > 0]

\* Step 8 of run_scan: the issues, and whether the LLM counts as used.
ScanIssues(local, llm) ==
    IF llm.kind = "accepted"
    THEN MergeLlmWithViolations(local.violations, llm)
    ELSE GenerateFallbackIssues(local.violations)

\* The response assembled at the end of run_scan (scan_id and duration_ms,
\* which differ from run to run by design, are left out).
ScanReport(files, local, llm) ==
    [issues |-> ScanIssues(local, llm),
     riskScore |-> local.score,
     llm_used |-> llm.kind = "accepted",
     deterministic_only |-> llm.kind # "accepted",
     audit |-> [files_scanned |-> Len(files),
                violations_found |-> Len(local.violations),
                risk_score |-> local.score,
                llm_invoked |-> llm.kind = "accepted",
                llm_tokens_used |-> llm.tokens_used]]

\* The same scan run alone on a fresh worker, its LLM call returning llm.
ScanAlone(files, llm) ==
    ScanReport(files, ScanAnalyse([k \in CacheKeys |-> None], files), llm)

NoAccess == [read |-> {}, written |-> {}]

InitConcurrent ==
    /\ PipelineIdle
    /\ IdleButConcurrent
    /\ cs_files \in [Scans -> ConcurrentFiles]
    /\ cs_pc = [i \in Scans |-> "idle"]
    /\ cs_cache = [k \in CacheKeys |-> None]
    /\ cs_tokens = 0
    /\ cs_local = [i \in Scans |-> None]
    /\ cs_llm = [i \in Scans |-> NoLlm]
    /\ cs_response = [i \in Scans |-> None]
    /\ cs_access = [i \in Scans |-> NoAccess]
    /\ cs_overlap = FALSE

\* run_scan from its start to 'await self.llm_gateway.complete(prompt)':
\* the cache is read, the gateway's counter is reset, the coroutine suspends.
ScanToAwait ==
    /\ \E i \in Scans :
          /\ cs_pc[i] = "idle"
          /\ \E local \in {ScanAnalyse(cs_cache, cs_files[i])} :
                /\ local.should_use_llm
                /\ cs_cache' = local.cache
                /\ cs_local' = [cs_local EXCEPT ![i] = Some(local)]
          /\ cs_tokens' = 0
          /\ cs_pc' = [cs_pc EXCEPT ![i] = "awaiting"]
          /\ cs_access' = [cs_access EXCEPT
                ![i].read = @ \cup {"cache._store"},
                ![i].written = @ \cup {"cache._store",
                                       "llm_gateway.total_tokens_used"}]
          /\ cs_overlap' = (cs_overlap \/ cs_pc[Other(i)] = "awaiting")
    /\ UNCHANGED << cs_files, cs_llm, cs_response >>
    /\ UNCHANGED notConcurrent

\* run_scan from the return of the last thread call inside gateway.complete
\* to its own return: the tokens are added to the counter, the issues are
\* built, the files are stored in the cache.
ScanResume ==
    /\ \E i \in Scans, llm \in LlmReturns :
          /\ cs_pc[i] = "awaiting"
          /\ cs_tokens' = IF llm.kind = "exhausted" THEN cs_tokens
                          ELSE cs_tokens + llm.tokens_used
          /\ cs_llm' = [cs_llm EXCEPT ![i] = llm]
          /\ cs_cache' = ScanStore(cs_cache, cs_files[i], cs_local[i][1].modules, 1)
          /\ cs_response' = [cs_response EXCEPT
                ![i] = Some(ScanReport(cs_files[i], cs_local[i][1], llm))]
          /\ cs_pc' = [cs_pc EXCEPT ![i] = "done"]
          /\ cs_access' = [cs_access EXCEPT
                ![i].read = @ \cup IF llm.kind = "exhausted" THEN {}
                                   ELSE {"llm_gateway.total_tokens_used"},
                ![i].written = @ \cup {"cache._store"}]
    /\ UNCHANGED << cs_files, cs_local, cs_overlap >>
    /\ UNCHANGED notConcurrent

\* run_scan on files that do not call for the LLM: no await, the whole scan
\* is one step.
ScanWithoutLlm ==
    /\ \E i \in Scans :
          /\ cs_pc[i] = "idle"
          /\ \E local \in {ScanAnalyse(cs_cache, cs_files[i])} :
                /\ ~local.should_use_llm
                /\ cs_local' = [cs_local EXCEPT ![i] = Some(local)]
                /\ cs_cache' = ScanStore(local.cache, cs_files[i], local.modules, 1)
                /\ cs_response' = [cs_response EXCEPT
                      ![i] = Some(ScanReport(cs_files[i], local, NoLlm))]
          /\ cs_pc' = [cs_pc EXCEPT ![i] = "done"]
          /\ cs_access' = [cs_access EXCEPT
                ![i].read = @ \cup {"cache._store"},
                ![i].written = @ \cup {"cache._store"}]
          /\ cs_overlap' = (cs_overlap \/ cs_pc[Other(i)] = "awaiting")
    /\ UNCHANGED << cs_files, cs_tokens, cs_llm >>
    /\ UNCHANGED notConcurrent

NextConcurrent == ScanToAwait \/ ScanResume \/ ScanWithoutLlm

SpecConcurrent == InitConcurrent /\ [][NextConcurrent]_vars

\* The attributes of shared objects, the cache's store apart, that scan i
\* has written and scan j has read or written.
SharedBeyondCache(i, j) ==
    (cs_access[i].written \cap (cs_access[j].read \cup cs_access[j].written))
        \ {"cache._store"}

\* Every finished scan answered what it answers alone.
AnswersAsAlone ==
    \A i \in Scans :
        cs_pc[i] = "done" =>
            cs_response[i] = Some(ScanAlone(cs_files[i], cs_llm[i]))

\* C26: two scans that overlap share no mutable state but the file cache
\* (nothing one of them writes is read or written by the other) and each
\* answers what it answers alone.
C26_ScansShareOnlyCache ==
    cs_overlap =>
        /\ \A i \in Scans : SharedBeyondCache(i, Other(i)) = {}
        /\ AnswersAsAlone

\* The counter once both scans are over is what one of them used.
CounterIsOwnTokens ==
    (cs_overlap /\ \A i \in Scans : cs_pc[i] = "done") =>
        \E i \in Scans : cs_tokens = cs_llm[i].tokens_used

\* ------------------------------------------------- frame of a patch run
AppliedTo(path) ==
    \E i \in 1..Len(results) :
        results[i].status = "applied" /\ results[i].file_path = path

\* The response's patched_sources: the input paths as keys, the input
\* content for every file without an applied result.
FrameOfResponse ==
    pc = "done" =>
        /\ DOMAIN response.patched_sources = DOMAIN inputs
        /\ \A p \in DOMAIN inputs :
              ~AppliedTo(p) => response.patched_sources[p] = inputs[p]

\* A step that changes the working-source map records an applied result and
\* changes the map at that result's file only.
FrameOfStep ==
    \A p \in DOMAIN inputs :
        current_sources'[p] # current_sources[p] =>
            /\ Len(results') = Len(results) + 1
            /\ Last(results').status = "applied"
            /\ Last(results').file_path = p

\* C27: patched_sources has exactly the input paths as keys and the input
\* content for every file without an applied result; the working-source map
\* changes only when an applied result is recorded, and only at its file.
C27_PatchFrame == []FrameOfResponse /\ [][FrameOfStep]_vars

\* A finished run that patched one file and left the other, which had a
\* result of its own, as it came in.
C27_Witness ==
    /\ pc = "done"
    /\ \E p, q \in DOMAIN inputs :
          /\ AppliedTo(p)
          /\ response.patched_sources[p] # inputs[p]
          /\ ~AppliedTo(q)
          /\ \E i \in 1..Len(results) : results[i].file_path = q
          /\ response.patched_sources[q] = inputs[q]

\* ------------------------------------- rollback and earlier patches
\* The file as the patches applied for the first n violations left it.
RECURSIVE LatestApplied(_, _)
LatestApplied(path, n) ==
    IF n = 0 THEN inputs[path]
    ELSE IF results[n].status = "applied" /\ results[n].file_path = path
              /\ ~IsNone(results[n].patched_code)
         THEN results[n].patched_code[1]
         ELSE LatestApplied(path, n - 1)

\* C28: after a rollback the file holds every patch applied for earlier
\* violations: the snapshot of (file, function) is the working source the
\* violation started from, also when an older snapshot had the same key, and
\* the rollback puts that source back.
C28_RollbackKeepsEarlierPatches ==
    (AttemptMade /\ last.outcome = "rollback") =>
        LET f  == LastViolation.file
            fn == LastViolation.affected_function
        IN /\ snapshots[<< f, fn >>] = Some(LatestApplied(f, last.vi - 1))
           /\ current_sources[f] = LatestApplied(f, last.vi - 1)

\* A rollback in a function that an earlier violation of the run has patched.
C28_Witness ==
    /\ AttemptMade /\ last.outcome = "rollback"
    /\ \E i \in 1..(last.vi - 1) :
          /\ results[i].status = "applied"
          /\ results[i].file_path = LastViolation.file
          /\ results[i].target_function = LastViolation.affected_function
    /\ current_sources[LastViolation.file] # inputs[LastViolation.file]

\* -------------------------------------------------------- termination
\* The event loop runs the coroutine of PatchPipeline.run whenever it can
\* continue, and every call it awaits returns: a step that is possible is
\* eventually taken, which is weak fairness of Next. Next is enabled exactly
\* until run has returned (pc = "done"), so WF_vars(Next) reads: run has
\* returned, or steps keep being taken.
NextWeaklyFair == []<>(pc = "done") \/ []<><<Next>>_vars

FairSpec ==
    Spec /\ WF_vars(SourceMissing) /\ WF_vars(BeginViolation) /\ NextWeaklyFair

FinalStatuses == {"applied", "rejected", "rollback", "failed"}

\* run has returned: one result with a final status for every violation,
\* and a response with message patch_complete.
RunReturned ==
    /\ pc = "done"
    /\ response.message = "patch_complete"
    /\ Len(results) = Len(violations)
    /\ \A i \in 1..Len(results) :
          /\ results[i].status \in FinalStatuses
          /\ results[i].rule_id = violations[i].rule_id
          /\ results[i].file_path = violations[i].file

\* C29: whatever the files, max_retries and the answers of the patch source,
\* run returns: every violation gets one final status among applied,
\* rejected, rollback and failed, and the response says patch_complete.
C29_RunTerminates == <>RunReturned

\* A run that returned after using every attempt of a violation more than
\* once over and giving up on it, with another violation patched.
C29_Witness ==
    /\ RunReturned
    /\ cfg.max_retries > 0
    /\ \E i, j \in 1..Len(results) :
          /\ results[i].status = "applied"
          /\ results[j].status \in {"rejected", "failed"}
          /\ results[j].llm_attempts = cfg.max_retries + 1

\* ================================================ background scan status
MaxQueued == 3

\* scan_id is "bg-" and id(files) % 100000, five digits: the address of the
\* list cut to its last digits. The allocator hands an address out again
\* once the list is freed, and the last digits of two lists alive together
\* can coincide, so any id can come back. An id the route never hands out
\* stands for the unknown.
BgIds     == {"bg-00016", "bg-00032"}
UnknownId == "bg-x"

\* dict assignment d[k] = v.
DictSet(d, k, v) == [x \in DOMAIN d \cup {k} |-> IF x = k THEN v ELSE d[x]]

\* dict.get(k, default).
DictGet(d, k, default) == IF k \in DOMAIN d THEN d[k] ELSE default

\* The response of run_scan for the n-th queued scan, scan_id overwritten.
BackgroundResult(n, scan_id) ==
    [message |-> "scan_complete", scan_id |-> scan_id, report |-> Some(<< "report", n >>)]

\* GET /scan/{scan_id}/status.
ScanStatus(scan_id) ==
    LET status == DictGet(bs_status, scan_id, "not_found")
        result == DictGet(bs_scans, scan_id, None)
    IN IF status = "not_found"
       THEN [scan_id |-> scan_id, status |-> "failed",
             error |-> Some("Scan not found"), report |-> None]
       ELSE [scan_id |-> scan_id, status |-> status, error |-> None,
             report |-> IF IsNone(result) THEN None ELSE result[1].report]

InitBackground ==
    /\ PipelineIdle
    /\ IdleButBackground
    /\ bs_status = << >>
    /\ bs_scans = << >>
    /\ bs_log = << >>
    /\ bs_polled = None

\* POST /scan with more files than the threshold: the id is taken, the two
\* dicts are set, the task is created and the queue response is sent.
QueueBackground ==
    /\ Len(bs_log) < MaxQueued
    /\ \E scan_id \in BgIds :
          /\ bs_scans' = DictSet(bs_scans, scan_id, None)
          /\ bs_status' = DictSet(bs_status, scan_id, "running")
          /\ bs_log' = Append(bs_log, [scan_id |-> scan_id, task |-> "running"])
    /\ UNCHANGED bs_polled
    /\ UNCHANGED notBackground

\* _run_background, run_scan returned.
TaskCompletes ==
    /\ \E n \in 1..Len(bs_log) :
          /\ bs_log[n].task = "running"
          /\ bs_scans' = DictSet(bs_scans, bs_log[n].scan_id,
                                 Some(BackgroundResult(n, bs_log[n].scan_id)))
          /\ bs_status' = DictSet(bs_status, bs_log[n].scan_id, "complete")
          /\ bs_log' = [bs_log EXCEPT ![n].task = "complete"]
    /\ UNCHANGED bs_polled
    /\ UNCHANGED notBackground

\* _run_background, run_scan raised.
TaskFails ==
    /\ \E n \in 1..Len(bs_log) :
          /\ bs_log[n].task = "running"
          /\ bs_status' = DictSet(bs_status, bs_log[n].scan_id, "failed")
          /\ bs_log' = [bs_log EXCEPT ![n].task = "failed"]
    /\ UNCHANGED << bs_scans, bs_polled >>
    /\ UNCHANGED notBackground

\* A client polls the status endpoint.
PollStatus ==
    /\ \E scan_id \in BgIds \cup {UnknownId} :
          bs_polled' = Some(ScanStatus(scan_id))
    /\ UNCHANGED << bs_status, bs_scans, bs_log >>
    /\ UNCHANGED notBackground

NextBackground == QueueBackground \/ TaskCompletes \/ TaskFails \/ PollStatus

SpecBackground == InitBackground /\ [][NextBackground]_vars

\* What the status endpoint has to answer for the n-th queued scan.
StatusAsTask(n) ==
    LET answer == ScanStatus(bs_log[n].scan_id)
    IN /\ answer.status = bs_log[n].task
       /\ bs_log[n].task = "complete" =>
             answer.report = Some(<< "report", n >>)

\* C30: the status of a queued scan is running until its task ends, then
\* complete with its report, or failed, whatever is queued afterwards; an
\* unknown scan_id is answered failed, 'Scan not found'.
C30_StatusFollowsTask ==
    /\ \A n \in 1..Len(bs_log) : StatusAsTask(n)
    /\ ScanStatus(UnknownId).status = "failed"
    /\ ScanStatus(UnknownId).error = Some("Scan not found")

\* The part on unknown ids, as polled.
UnknownIsNotFound ==
    (~IsNone(bs_polled) /\ bs_polled[1].scan_id \notin DOMAIN bs_status) =>
        /\ bs_polled[1].status = "failed"
        /\ bs_polled[1].error = Some("Scan not found")

\* A scan that ended complete and a later scan queued under its id.
IdReusedAfterCompletion ==
    \E n, m \in 1..Len(bs_log) :
        /\ n < m
        /\ bs_log[n].scan_id = bs_log[m].scan_id
        /\ bs_log[n].task = "complete"
        /\ bs_log[m].task = "running"
        /\ bs_status[bs_log[n].scan_id] = "running"
        /\ IsNone(bs_scans[bs_log[n].scan_id])
====
